---- MODULE Spec2Model ----
(***************************************************************************)
(* Detective Joe v1.5: the asynchronous worker pool (src/async_worker.py)  *)
(* and the plugin execution contract it drives (src/plugins/base.py).      *)
(*                                                                         *)
(* asyncio is cooperative: a coroutine runs without interruption between   *)
(* two suspension points, so one action of the model is the code between   *)
(* two awaits that really suspend.  The suspension points are              *)
(*   - the queue pull of a worker      (async_worker.py:237),              *)
(*   - the subprocess wait of a plugin (base.py:147-157),                  *)
(*   - the poll sleep of wait_for_tasks (async_worker.py:207),             *)
(*   - the gather of stop()            (async_worker.py:112).              *)
(* The pool's public coroutines are called by one client coroutine, one    *)
(* call at a time (detectivejoe.py:339,442,721,771 and the tests).         *)
(* CancelledError is a BaseException (Python 3.8 and later): neither       *)
(* "except Exception" nor "except asyncio.TimeoutError" catches it.        *)
(*                                                                         *)
(* PLUGIN_REGISTRY is the module global of async_worker that               *)
(* _execute_task reads (async_worker.py:272-277) and that detectivejoe.py  *)
(* (39, 180-182) and the tests (test_framework.py:191-192) import and      *)
(* fill.  async_worker.py itself never binds the name; the model takes it  *)
(* as the importers do, a dict that is empty when the module is loaded.    *)
(*                                                                         *)
(* state_manager.py likewise never binds register_signal_handlers, the     *)
(* name StateManager.__init__ reads (state_manager.py:97): as the file     *)
(* stands the constructor raises NameError.  The model follows both, the   *)
(* name unbound and the name set in the module by whoever imports it.      *)
(*                                                                         *)
(* A Task object is submitted once, freshly built and PENDING, as          *)
(* execute_plugin_batch does (async_worker.py:162-170).  Two objects may   *)
(* carry the same id (same plugin, same millisecond); statuses are those   *)
(* of the objects.                                                         *)
(***************************************************************************)
EXTENDS Integers, Sequences, FiniteSets, TLC

\* ------------------------------------------------------------------ bounds
\* max_workers of the pool under study (test_framework.py:159 uses 2)
MaxWorkers == 2
\* number of Task objects ever created
MaxTasks == 3
\* last millisecond of the clock that stamps task ids
MaxClock == 1
\* number of Task objects created in the runs checked for progress
MaxLiveTasks == 2

\* ------------------------------------------------------- program constants
\* TaskStatus (async_worker.py:15-22)
PENDING == "pending"
RUNNING == "running"
COMPLETED == "completed"
FAILED == "failed"
TIMEOUT == "timeout"
CANCELLED == "cancelled"

TaskStatus == {PENDING, RUNNING, COMPLETED, FAILED, TIMEOUT, CANCELLED}

Terminal == {COMPLETED, FAILED, TIMEOUT, CANCELLED}

\* Python's None
None == "None"

\* a non-empty message: str(e) of the exceptions the code raises itself
\* (async_worker.py:279) or meets (an AttributeError, a TypeError), and the
\* timeout text (async_worker.py:296)
StrE == "message"

\* the plugins _execute_task registers when the registry is empty
\* (async_worker.py:272-274)
LazyPlugins == {"nmap", "theharvester"}

\* the plugin names a task may carry: a built-in one and the tests' mock,
\* which is in the registry only after somebody registered it
PluginNames == {"nmap", "mock"}

WorkerIds == 1..MaxWorkers

VARIABLES
    running,          \* self.running
    workers,          \* self.workers: the list of worker handles
    wstate,           \* per worker coroutine: where it is suspended
    wtask,            \* per worker: the Task object it is executing (0: none)
    cancel_requested, \* per worker: worker.cancel() called, not yet delivered
    task_objs,        \* every Task object created so far, in creation order
    tasks,            \* self.tasks: task id -> Task object (index in task_objs)
    task_queue,       \* self.task_queue: FIFO of Task objects
    semaphore,        \* free slots of self.semaphore
    stats,            \* self.stats
    PLUGIN_REGISTRY,  \* the global name -> class registry (names only)
    clock,            \* int(time.time() * 1000) when it was last read
    cpc,              \* the client coroutine: "idle", "stopping", "waiting"
    wait_ids,         \* task_ids of the wait_for_tasks call in progress
    batch_k,          \* K of the execute_plugin_batch call in progress (0: none)
    ret,              \* the results map the client's last call returned
    timed_out,        \* whether that call left its polling loop by timeout
    artifacts,            \* artifact_db.artifacts: id -> Artifact
    artifacts_by_type,    \* artifact_db.artifacts_by_type: type -> set of ids
    artifacts_by_source,  \* artifact_db.artifacts_by_source: plugin -> ids
    ops,                  \* the calls made on the intelligence engine so far
    profile,              \* self.profile of DetectiveJoe (the keys read here)
    plugins,              \* self.plugins: the names of the loaded plugins
    available,            \* the loaded plugins whose is_available() is True
    manifests,            \* plugin_discovery.manifests: name -> consumes
    investigation_state,  \* self.investigation_state (active, chained_tasks)
    ipc,                  \* where run_investigation_async is suspended
    inv,                  \* the investigation in progress or just ended
    inv_ret,              \* what the last run_investigation_async gave back
    px,                   \* the PluginBase.execute call in progress or ended
    sm                    \* the StateManager, its state directory, its last call

storeVars == <<artifacts, artifacts_by_type, artifacts_by_source>>

joeVars == <<profile, plugins, available, manifests, investigation_state, ipc,
             inv, inv_ret, px, sm>>

vars == <<running, workers, wstate, wtask, cancel_requested, task_objs, tasks,
          task_queue, semaphore, stats, PLUGIN_REGISTRY, clock, cpc, wait_ids,
          batch_k, ret, timed_out, storeVars, ops, joeVars>>

poolVars == <<running, workers, wstate, wtask, cancel_requested, task_objs,
              tasks, task_queue, semaphore, stats>>

clientVars == <<cpc, wait_ids, batch_k, ret, timed_out>>

\* ----------------------------------------------------------------- helpers
\* the task ids execute_plugin_batch can build for the one target and
\* category under study: f"{plugin.name}_{target}_{category}_{ms}"
TaskIds == PluginNames \X (0..MaxClock)

TaskId(plugin_name, ms) == <<plugin_name, ms>>

\* Task(...) as the dataclass builds it (async_worker.py:25-37); hist is the
\* sequence of values assigned to status
NewTask(id, plugin_name) ==
    [id |-> id, plugin_name |-> plugin_name, status |-> PENDING,
     result |-> None, error |-> None, hist |-> <<PENDING>>]

TaskIdx == 1..Len(task_objs)

NumRunning == Cardinality({t \in TaskIdx : task_objs[t].status = RUNNING})

Range(s) == {s[i] : i \in 1..Len(s)}

\* the return value of a call that returns no results map
NoResults == [id \in {} |-> None]

\* AsyncWorkerPool.__init__ (async_worker.py:55-84)
PoolInit ==
    /\ running = FALSE
    /\ workers = <<>>
    /\ wstate = [w \in WorkerIds |-> "none"]
    /\ wtask = [w \in WorkerIds |-> 0]
    /\ cancel_requested = [w \in WorkerIds |-> FALSE]
    /\ task_objs = <<>>
    /\ tasks = [id \in {} |-> 0]
    /\ task_queue = <<>>
    /\ semaphore = MaxWorkers
    /\ stats = [tasks_submitted |-> 0, tasks_completed |-> 0,
                tasks_failed |-> 0, tasks_timeout |-> 0]
    /\ PLUGIN_REGISTRY = {}
    /\ clock = 0
    /\ cpc = "idle"
    /\ wait_ids = {}
    /\ batch_k = 0
    /\ ret = NoResults
    /\ timed_out = FALSE

\* ------------------------------------------------------------- lifecycle
\* a call that returns no results map returns: the client drops what its
\* previous call returned
ClientReturns ==
    /\ ret' = NoResults
    /\ batch_k' = 0
    /\ timed_out' = FALSE

\* the handles start() appends: one worker coroutine per slot
\* (async_worker.py:95-97)
SpawnedWorkers == [i \in 1..MaxWorkers |-> i]

\* start() without its "if self.running: return"
Start_NoGuard ==
    /\ cpc = "idle"
    /\ running' = TRUE
    /\ workers' = workers \o SpawnedWorkers
    /\ wstate' = [w \in WorkerIds |-> IF wstate[w] = "execute" THEN "execute" ELSE "get"]
    /\ ClientReturns
    /\ UNCHANGED <<wtask, cancel_requested, task_objs, tasks, task_queue,
                   semaphore, stats, PLUGIN_REGISTRY, clock, cpc, wait_ids>>

\* start() (async_worker.py:86-97).  A created worker coroutine runs to its
\* first suspension, the queue pull.
Start ==
    /\ cpc = "idle"
    /\ IF running
       THEN UNCHANGED poolVars
       ELSE /\ running' = TRUE
            /\ workers' = workers \o SpawnedWorkers
            /\ wstate' = [w \in WorkerIds |-> "get"]
            /\ wtask' = [w \in WorkerIds |-> 0]
            /\ cancel_requested' = [w \in WorkerIds |-> FALSE]
            /\ UNCHANGED <<task_objs, tasks, task_queue, semaphore, stats>>
    /\ ClientReturns
    /\ UNCHANGED <<PLUGIN_REGISTRY, clock, cpc, wait_ids>>

\* stop() up to its gather (async_worker.py:99-112): clears running and
\* requests the cancellation of every worker handle
StopBegin ==
    /\ cpc = "idle"
    /\ IF ~running
       THEN UNCHANGED <<running, cancel_requested, cpc>>
       ELSE /\ running' = FALSE
            /\ cancel_requested' =
                   [w \in WorkerIds |-> w \in Range(workers) /\ wstate[w] # "done"]
            /\ cpc' = "stopping"
    /\ ClientReturns
    /\ UNCHANGED <<workers, wstate, wtask, task_objs, tasks, task_queue,
                   semaphore, stats, PLUGIN_REGISTRY, clock, wait_ids>>

\* stop() after its gather (async_worker.py:112-115): every worker handle is
\* done; the list is cleared and the finished coroutines are dropped
StopReturn ==
    /\ cpc = "stopping"
    /\ \A w \in Range(workers) : wstate[w] = "done"
    /\ workers' = <<>>
    /\ wstate' = [w \in WorkerIds |-> "none"]
    /\ cpc' = "idle"
    /\ UNCHANGED <<running, wtask, cancel_requested, task_objs, tasks,
                   task_queue, semaphore, stats, PLUGIN_REGISTRY, clock,
                   wait_ids, batch_k, ret, timed_out>>

\* ------------------------------------------------------------ submission
\* the Task objects a caller creates for the plugin names ps at time ms
CreatedTasks(ps, ms) == [i \in 1..Len(ps) |-> NewTask(TaskId(ps[i], ms), ps[i])]

\* self.tasks after submit_task of each created object, in order: a later
\* object with the same id replaces the earlier entry (async_worker.py:127)
TasksAfterSubmit(ps, ms) ==
    LET ids == {TaskId(ps[i], ms) : i \in 1..Len(ps)}
        last(id) == CHOOSE i \in 1..Len(ps) :
                        /\ TaskId(ps[i], ms) = id
                        /\ \A j \in 1..Len(ps) : TaskId(ps[j], ms) = id => j <= i
    IN [id \in DOMAIN tasks \cup ids |->
            IF id \in ids THEN Len(task_objs) + last(id) ELSE tasks[id]]

\* a queue that hands out the task put last
QueueAfterSubmit_Stack(ps) == [i \in 1..Len(ps) |-> Len(task_objs) + i] \o task_queue

\* the queue after the puts (async_worker.py:128)
QueueAfterSubmit(ps) == task_queue \o [i \in 1..Len(ps) |-> Len(task_objs) + i]

\* the values time.time() can have when it is read next: time does not run
\* backwards
Now == clock..MaxClock

\* submit_task(task) (async_worker.py:117-132) with a freshly built Task whose
\* id carries the time ms; the put on the unbounded queue does not suspend
SubmitTask(p, ms) ==
    /\ cpc = "idle"
    /\ Len(task_objs) < MaxTasks
    /\ clock' = ms
    /\ task_objs' = task_objs \o CreatedTasks(<<p>>, ms)
    /\ tasks' = TasksAfterSubmit(<<p>>, ms)
    /\ task_queue' = QueueAfterSubmit(<<p>>)
    /\ stats' = [stats EXCEPT !.tasks_submitted = @ + 1]
    /\ ClientReturns
    /\ UNCHANGED <<running, workers, wstate, wtask, cancel_requested,
                   semaphore, PLUGIN_REGISTRY, cpc, wait_ids>>

\* ------------------------------------------------------- wait_for_tasks
\* pending_tasks that forgets the tasks that are RUNNING
PendingTasks_OnlyPending(ids) ==
    {id \in ids : id \in DOMAIN tasks /\ task_objs[tasks[id]].status = PENDING}

\* pending_tasks of the polling loop (async_worker.py:198-201)
PendingTasks(ids) ==
    {id \in ids : id \in DOMAIN tasks
                  /\ task_objs[tasks[id]].status \in {PENDING, RUNNING}}

\* the results map wait_for_tasks collects (async_worker.py:210-221), reduced
\* to the "status" of each entry; the other fields of an entry are copies of
\* the same Task object's fields
CollectResults(ids) ==
    [id \in {i \in ids : i \in DOMAIN tasks} |-> task_objs[tasks[id]].status]

\* the plugin lists of a batch: K plugins with pairwise distinct names (the
\* caller's plugin table is keyed by name, detectivejoe.py:306-311)
BatchPlugins ==
    {ps \in UNION {[1..k -> PluginNames] : k \in 1..Cardinality(PluginNames)} :
        \A i, j \in 1..Len(ps) : ps[i] = ps[j] => i = j}

\* execute_plugin_batch up to the first sleep of its wait_for_tasks
\* (async_worker.py:134-174, 193-207): starts the pool if needed, creates and
\* submits one Task per plugin, all within the millisecond ms; every new task
\* is PENDING, so the wait loop does not leave at its first check
ExecutePluginBatch(ps, ms) ==
    /\ cpc = "idle"
    /\ Len(task_objs) + Len(ps) <= MaxTasks
    /\ clock' = ms
    /\ running' = TRUE
    /\ workers' = IF running THEN workers ELSE workers \o SpawnedWorkers
    /\ wstate' = IF running THEN wstate ELSE [w \in WorkerIds |-> "get"]
    /\ wtask' = IF running THEN wtask ELSE [w \in WorkerIds |-> 0]
    /\ cancel_requested' =
           IF running THEN cancel_requested ELSE [w \in WorkerIds |-> FALSE]
    /\ task_objs' = task_objs \o CreatedTasks(ps, ms)
    /\ tasks' = TasksAfterSubmit(ps, ms)
    /\ task_queue' = QueueAfterSubmit(ps)
    /\ stats' = [stats EXCEPT !.tasks_submitted = @ + Len(ps)]
    /\ cpc' = "waiting"
    /\ wait_ids' = {TaskId(ps[i], ms) : i \in 1..Len(ps)}
    /\ batch_k' = Len(ps)
    /\ ret' = NoResults
    /\ timed_out' = FALSE
    /\ UNCHANGED <<semaphore, PLUGIN_REGISTRY>>

\* most ids one direct wait_for_tasks call names
MaxWaitIds == 1

\* wait_for_tasks(task_ids, timeout) called directly, up to its first sleep
\* (async_worker.py:178-207): the first pass of the loop runs at once
\* (wait_timeout is positive), and leaves if nothing is pending
WaitForTasks(ids) ==
    /\ cpc = "idle"
    /\ batch_k' = 0
    /\ IF PendingTasks(ids) = {}
       THEN /\ ret' = CollectResults(ids)
            /\ UNCHANGED <<cpc, wait_ids>>
       ELSE /\ cpc' = "waiting"
            /\ wait_ids' = ids
            /\ ret' = NoResults
    /\ timed_out' = FALSE
    /\ UNCHANGED <<poolVars, PLUGIN_REGISTRY, clock>>

\* a later pass of the polling loop finds no pending task: break, collect,
\* return (async_worker.py:196-223)
WaitReturnComplete ==
    /\ cpc = "waiting"
    /\ PendingTasks(wait_ids) = {}
    /\ ret' = CollectResults(wait_ids)
    /\ timed_out' = FALSE
    /\ cpc' = "idle"
    /\ wait_ids' = {}
    /\ UNCHANGED <<poolVars, PLUGIN_REGISTRY, clock, batch_k>>

\* a wait_for_tasks that marks the tasks it gave up on as TIMEOUT
WaitReturnTimeout_MarksTimeout ==
    /\ cpc = "waiting"
    /\ task_objs' = [t \in TaskIdx |->
                        IF task_objs[t].id \in PendingTasks(wait_ids)
                        THEN [task_objs[t] EXCEPT !.status = TIMEOUT,
                                                  !.hist = Append(@, TIMEOUT)]
                        ELSE task_objs[t]]
    /\ ret' = CollectResults(wait_ids)
    /\ timed_out' = TRUE
    /\ cpc' = "idle"
    /\ wait_ids' = {}
    /\ UNCHANGED <<running, workers, wstate, wtask, cancel_requested, tasks,
                   task_queue, semaphore, stats, PLUGIN_REGISTRY, clock,
                   batch_k>>

\* the loop condition fails, wait_timeout has elapsed: collect and return
\* whatever the tasks are (async_worker.py:196, 209-223)
WaitReturnTimeout ==
    /\ cpc = "waiting"
    /\ ret' = CollectResults(wait_ids)
    /\ timed_out' = TRUE
    /\ cpc' = "idle"
    /\ wait_ids' = {}
    /\ UNCHANGED <<poolVars, PLUGIN_REGISTRY, clock, batch_k>>

\* ------------------------------------------------------------ environment
\* the registry as a caller sets it before it submits anything: cleared and
\* filled with the discovered plugins (detectivejoe.py:180-182), or one name
\* added (test_framework.py:191-192)
InitPlugins(S) ==
    /\ cpc = "idle"
    /\ task_objs = <<>>
    /\ PLUGIN_REGISTRY = {}
    /\ PLUGIN_REGISTRY' = S
    /\ UNCHANGED <<poolVars, clientVars, clock>>

\* what discovery may find: every plugin a task can name
RegistryChoices == {PluginNames}


\* --------------------------------------------------------- plugin contract
\* What PluginBase.execute meets before its first await (base.py:120-143):
\* the tool is unavailable, the target is rejected, a check itself raises
\* (is_available / validate_target run outside the try), or the command is
\* built and the subprocess is spawned.
SyncEvents == {"unavailable", "invalid_target", "check_raises", "spawned"}

\* What happens to a spawned subprocess (base.py:147-202): it exits within
\* exec_timeout, it exceeds exec_timeout and is killed, or spawning or
\* reading it raises.
AsyncEvents == {"process_exits", "process_hangs", "process_error"}

\* PluginBase.execute (base.py:107-202): what the coroutine hands to its
\* awaiter.  A process that exits in time reaches the success envelope, whose
\* "execution_time" is an undefined name (base.py:176): the NameError is
\* caught by the outer "except Exception" (base.py:194-202).  A timeout is
\* caught inside execute and returned as an envelope (base.py:179-192).
PluginExecute(event) ==
    CASE event = "unavailable"    -> [kind |-> "return", status |-> "skipped"]
      [] event = "invalid_target" -> [kind |-> "return", status |-> "error"]
      [] event = "check_raises"   -> [kind |-> "raise", status |-> StrE]
      [] event = "process_exits"  -> [kind |-> "return", status |-> "error"]
      [] event = "process_hangs"  -> [kind |-> "return", status |-> "timeout"]
      [] event = "process_error"  -> [kind |-> "return", status |-> "error"]

\* ------------------------------------------------------------ _execute_task
\* the registry after the lazy registration (async_worker.py:272-274)
RegistryAtExecute == IF PLUGIN_REGISTRY = {} THEN LazyPlugins ELSE PLUGIN_REGISTRY

\* _execute_task without its "task.status = TaskStatus.RUNNING"
MarkRunning_Skipped(task) == task

\* status = RUNNING (async_worker.py:262)
MarkRunning(task) ==
    [task EXCEPT !.status = RUNNING, !.hist = Append(@, RUNNING)]

\* the "except Exception" branch without its "task.error = str(e)"
MarkFinished_NoError(task, res) ==
    CASE res.kind = "return" ->
             [task EXCEPT !.result = res.status, !.status = COMPLETED,
                          !.hist = Append(@, COMPLETED)]
      [] res.kind = "raise_timeout" ->
             [task EXCEPT !.status = TIMEOUT, !.error = StrE,
                          !.hist = Append(@, TIMEOUT)]
      [] res.kind = "raise" ->
             [task EXCEPT !.status = FAILED, !.hist = Append(@, FAILED)]

\* the try block without its "task.status = TaskStatus.COMPLETED"
MarkFinished_StaysRunning(task, res) ==
    CASE res.kind = "return" -> [task EXCEPT !.result = res.status]
      [] res.kind = "raise_timeout" ->
             [task EXCEPT !.status = TIMEOUT, !.error = StrE,
                          !.hist = Append(@, TIMEOUT)]
      [] res.kind = "raise" ->
             [task EXCEPT !.status = FAILED, !.error = res.status,
                          !.hist = Append(@, FAILED)]

\* the try / except of _execute_task applied to what the try block produced
\* (async_worker.py:290-303)
MarkFinished(task, res) ==
    CASE res.kind = "return" ->
             [task EXCEPT !.result = res.status, !.status = COMPLETED,
                          !.hist = Append(@, COMPLETED)]
      [] res.kind = "raise_timeout" ->
             [task EXCEPT !.status = TIMEOUT, !.error = StrE,
                          !.hist = Append(@, TIMEOUT)]
      [] res.kind = "raise" ->
             [task EXCEPT !.status = FAILED, !.error = res.status,
                          !.hist = Append(@, FAILED)]

\* the counters of the same branches (async_worker.py:292, 297, 302)
StatsAfter(res) ==
    CASE res.kind = "return" -> [stats EXCEPT !.tasks_completed = @ + 1]
      [] res.kind = "raise_timeout" -> [stats EXCEPT !.tasks_timeout = @ + 1]
      [] res.kind = "raise" -> [stats EXCEPT !.tasks_failed = @ + 1]

\* the top of the worker loop after a task (async_worker.py:234)
LoopAgain == IF running THEN "get" ELSE "done"

\* A worker's queue pull returns a task and the worker runs _execute_task up
\* to the next suspension (async_worker.py:237-243, 261-313).  The semaphore
\* is free whenever a worker pulls (SemaphoreNeverBlocks), so the slot is
\* granted at once.  An unknown plugin, an unavailable tool, a rejected target
\* and a raising check finish the task without suspending; otherwise the
\* worker is suspended in plugin.execute holding the slot.
\* A worker that stop() cancelled while a queued task was already handed to
\* its pull either ends with the task left in the queue (WorkerCancelled), or
\* gets the task: asyncio.wait_for returns the result of a pull that has
\* finished and drops the CancelledError (Python 3.8 to 3.11), so the worker
\* runs the task as if it had not been cancelled and ends at the loop test.
WorkerExecuteTask(w, event) ==
    /\ wstate[w] = "get"
    /\ task_queue # <<>>
    /\ semaphore > 0
    /\ LET t == Head(task_queue)
           started == MarkRunning(task_objs[t])
           known == started.plugin_name \in RegistryAtExecute
           res == IF known THEN PluginExecute(event)
                  ELSE [kind |-> "raise", status |-> StrE]
       IN /\ task_queue' = Tail(task_queue)
          /\ PLUGIN_REGISTRY' = RegistryAtExecute
          /\ IF known /\ event = "spawned"
             THEN /\ task_objs' = [task_objs EXCEPT ![t] = started]
                  /\ semaphore' = semaphore - 1
                  /\ wstate' = [wstate EXCEPT ![w] = "execute"]
                  /\ wtask' = [wtask EXCEPT ![w] = t]
                  /\ UNCHANGED stats
             ELSE /\ task_objs' = [task_objs EXCEPT ![t] = MarkFinished(started, res)]
                  /\ stats' = StatsAfter(res)
                  /\ wstate' = [wstate EXCEPT ![w] = LoopAgain]
                  /\ UNCHANGED <<semaphore, wtask>>
    /\ cancel_requested' = [cancel_requested EXCEPT ![w] = FALSE]
    /\ UNCHANGED <<running, workers, tasks, clock, clientVars>>

\* plugin.execute returns to a suspended worker: the task is marked, the slot
\* released, and the worker is back at its queue pull
\* (async_worker.py:283-313, 243, 234-237)
WorkerFinishTask(w, event) ==
    /\ wstate[w] = "execute"
    /\ ~cancel_requested[w]
    /\ LET t == wtask[w]
           res == PluginExecute(event)
       IN /\ task_objs' = [task_objs EXCEPT ![t] = MarkFinished(task_objs[t], res)]
          /\ stats' = StatsAfter(res)
    /\ semaphore' = semaphore + 1
    /\ wstate' = [wstate EXCEPT ![w] = LoopAgain]
    /\ wtask' = [wtask EXCEPT ![w] = 0]
    /\ UNCHANGED <<running, workers, cancel_requested, tasks, task_queue,
                   PLUGIN_REGISTRY, clock, clientVars>>

\* the task a cancelled worker leaves behind: CancelledError passes both
\* except clauses of _execute_task, only the finally block runs
\* (async_worker.py:294-313), so the status stays as it is
AbandonTask(task) == task

\* a cancellation that marks every task that ever started as CANCELLED
WorkerCancelled_CancelsAll(w) ==
    /\ cancel_requested[w]
    /\ wstate[w] \in {"get", "execute"}
    /\ task_objs' = [t \in TaskIdx |->
                        IF task_objs[t].status = PENDING THEN task_objs[t]
                        ELSE [task_objs[t] EXCEPT !.status = CANCELLED,
                                                  !.hist = Append(@, CANCELLED)]]
    /\ semaphore' = IF wstate[w] = "execute" THEN semaphore + 1 ELSE semaphore
    /\ wstate' = [wstate EXCEPT ![w] = "done"]
    /\ wtask' = [wtask EXCEPT ![w] = 0]
    /\ cancel_requested' = [cancel_requested EXCEPT ![w] = FALSE]
    /\ UNCHANGED <<running, workers, tasks, task_queue, stats,
                   PLUGIN_REGISTRY, clock, clientVars>>

\* a cancellation that unwinds _execute_task without releasing the semaphore
WorkerCancelled_KeepsSlot(w) ==
    /\ cancel_requested[w]
    /\ wstate[w] \in {"get", "execute"}
    /\ wstate' = [wstate EXCEPT ![w] = "done"]
    /\ wtask' = [wtask EXCEPT ![w] = 0]
    /\ cancel_requested' = [cancel_requested EXCEPT ![w] = FALSE]
    /\ UNCHANGED <<running, workers, task_objs, tasks, task_queue, semaphore,
                   stats, PLUGIN_REGISTRY, clock, clientVars>>

\* CancelledError is delivered to a worker at its suspension point.  At the
\* queue pull the worker just ends (async_worker.py:237, 248).  Inside
\* plugin.execute it unwinds execute and _execute_task: the semaphore is
\* released by "async with", and the worker ends.
WorkerCancelled(w) ==
    /\ cancel_requested[w]
    /\ wstate[w] \in {"get", "execute"}
    /\ IF wstate[w] = "execute"
       THEN /\ task_objs' = [task_objs EXCEPT ![wtask[w]] = AbandonTask(@)]
            /\ semaphore' = semaphore + 1
       ELSE UNCHANGED <<task_objs, semaphore>>
    /\ wstate' = [wstate EXCEPT ![w] = "done"]
    /\ wtask' = [wtask EXCEPT ![w] = 0]
    /\ cancel_requested' = [cancel_requested EXCEPT ![w] = FALSE]
    /\ UNCHANGED <<running, workers, tasks, task_queue, stats,
                   PLUGIN_REGISTRY, clock, clientVars>>

\* ------------------------------------------- artifact store (intelligence.py)
\* Strings are sequences of characters; a URL scheme is written as one
\* token.  str.lower() on the characters the inputs are written with: it
\* maps an upper-case letter to its lower-case letter and leaves every other
\* character as it is.
LowerChar(c) ==
    CASE c = "A" -> "a"
      [] c = "B" -> "b"
      [] c = "X" -> "x"
      [] c = "HTTP://" -> "http://"
      [] OTHER -> c

Lower(v) == [i \in 1..Len(v) |-> LowerChar(v[i])]

\* the values the parsed fields of the inputs carry: "a@x", "A@X", "b@x"
InputValues == {<<"a", "@", "x">>, <<"A", "@", "X">>, <<"b", "@", "x">>}

\* the parsed-data keys the inputs of the store's own runs carry
InputKeys == {"emails", "people"}

\* the plugins the results of those runs come from
SourcePlugins == {"nmap", "theharvester"}

\* the tag a caller of tag_artifacts adds
ReviewTag == "reviewed"

\* number of task results in one results map
MaxBatchTasks == 1
\* number of entries in the parsed data of one task result
MaxEntries == 2
\* number of process_plugin_results calls in one run of the store
MaxIngests == 2
\* number of tag_artifacts calls in one run of the store
MaxTaggings == 1

\* _generate_artifact_id (intelligence.py:344-347): the digest is a function
\* of the text "type:lowercase(value)"; the text stands for its digest (no
\* two texts of the model share one)
GenerateArtifactId_CaseSensitive(artifact_type, value) ==
    <<artifact_type, ":">> \o value

GenerateArtifactId(artifact_type, value) ==
    <<artifact_type, ":">> \o Lower(value)

\* the order in which _extract_artifacts_from_parsed_data looks at the keys
KeyOrder == <<"emails", "hosts", "ips", "open_ports", "services", "people",
              "urls">>

\* per key: the type, the confidence (in hundredths) and the tags of the
\* artifacts it yields (intelligence.py:216-340)
Extraction ==
    [emails     |-> [type |-> "email",   confidence |-> 80,
                     tags |-> {"email", "contact"}],
     hosts      |-> [type |-> "domain",  confidence |-> 90,
                     tags |-> {"domain", "infrastructure"}],
     ips        |-> [type |-> "ip",      confidence |-> 90,
                     tags |-> {"ip", "infrastructure"}],
     open_ports |-> [type |-> "port",    confidence |-> 95,
                     tags |-> {"port", "service", "network"}],
     services   |-> [type |-> "service", confidence |-> 85,
                     tags |-> {"service", "network"}],
     people     |-> [type |-> "person",  confidence |-> 70,
                     tags |-> {"person", "osint"}],
     urls       |-> [type |-> "url",     confidence |-> 80,
                     tags |-> {"url", "web"}]]

\* email.split("@")[1] if "@" in email else "" (intelligence.py:229)
EmailDomain(v) ==
    LET ats == {i \in 1..Len(v) : v[i] = "@"}
    IN  IF ats = {} THEN <<>>
        ELSE LET first == CHOOSE i \in ats : \A j \in ats : i <= j
                 later == {i \in ats : i > first}
                 stop  == IF later = {} THEN Len(v) + 1
                          ELSE CHOOSE i \in later : \A j \in later : i <= j
             IN  SubSeq(v, first + 1, stop - 1)

\* An entry of "open_ports" is <<state, port, protocol>>, an entry of every
\* other key is the value itself (for "services": the service name).
\* Only an open port is extracted (intelligence.py:270).
IsExtracted(key, e) == key = "open_ports" => e[1] = "open"

\* the value of the artifact: f"{port}/{protocol}" for a port
ArtifactValue(key, e) == IF key = "open_ports" THEN <<e[2], "/", e[3]>> ELSE e

\* Artifact(...) as the extraction builds it; target, category and timestamp
\* are the same for every artifact of one call and play no part in the store
NewArtifact_Stamped(key, e, plugin_name) ==
    LET stamped == ArtifactValue(key, e) \o <<ToString(Len(ops))>>
    IN  [id            |-> GenerateArtifactId(Extraction[key].type, stamped),
         type          |-> Extraction[key].type,
         value         |-> stamped,
         source_plugin |-> plugin_name,
         confidence    |-> Extraction[key].confidence,
         tags          |-> Extraction[key].tags,
         metadata      |-> IF key = "emails" THEN EmailDomain(e) ELSE <<>>]

NewArtifact(key, e, plugin_name) ==
    [id            |-> GenerateArtifactId(Extraction[key].type, ArtifactValue(key, e)),
     type          |-> Extraction[key].type,
     value         |-> ArtifactValue(key, e),
     source_plugin |-> plugin_name,
     confidence    |-> Extraction[key].confidence,
     tags          |-> Extraction[key].tags,
     metadata      |-> IF key = "emails" THEN EmailDomain(e) ELSE <<>>]

RECURSIVE Flatten(_)
Flatten(ss) == IF ss = <<>> THEN <<>> ELSE Head(ss) \o Flatten(Tail(ss))

\* _extract_artifacts_from_parsed_data (intelligence.py:205-342)
ExtractArtifactsFromParsedData(parsed_data, plugin_name) ==
    Flatten([k \in 1..Len(KeyOrder) |->
        IF KeyOrder[k] \in DOMAIN parsed_data
        THEN LET key == KeyOrder[k]
                 kept == SelectSeq(parsed_data[key],
                                   LAMBDA e : IsExtracted(key, e))
             IN  [i \in 1..Len(kept) |-> NewArtifact(key, kept[i], plugin_name)]
        ELSE <<>>])

\* ArtifactDatabase.__init__ on a storage path that does not exist yet
\* (intelligence.py:44-58)
EmptyDb ==
    [artifacts           |-> [id \in {} |-> None],
     artifacts_by_type   |-> [t \in {} |-> {}],
     artifacts_by_source |-> [p \in {} |-> {}]]

\* d[k] = v on a dict
DictSet(d, k, v) == [x \in DOMAIN d \cup {k} |-> IF x = k THEN v ELSE d[x]]

\* d.get(k, set()) | {v}
IndexAdd(d, k, v) ==
    DictSet(d, k, (IF k \in DOMAIN d THEN d[k] ELSE {}) \cup {v})

\* ArtifactDatabase.add_artifact (intelligence.py:60-81)
AddArtifact_ReplacesStore(db, artifact) ==
    [artifacts           |-> DictSet(EmptyDb.artifacts, artifact.id, artifact),
     artifacts_by_type   |-> IndexAdd(EmptyDb.artifacts_by_type, artifact.type, artifact.id),
     artifacts_by_source |-> IndexAdd(EmptyDb.artifacts_by_source,
                                      artifact.source_plugin, artifact.id)]

AddArtifact(db, artifact) ==
    [artifacts           |-> DictSet(db.artifacts, artifact.id, artifact),
     artifacts_by_type   |-> IndexAdd(db.artifacts_by_type, artifact.type, artifact.id),
     artifacts_by_source |-> IndexAdd(db.artifacts_by_source,
                                      artifact.source_plugin, artifact.id)]

\* ArtifactDatabase.find_similar_artifacts (intelligence.py:101-109): the ids
\* of the stored artifacts of the same type and lower-cased value that have
\* another id
FindSimilarArtifacts(db, artifact) ==
    {id \in DOMAIN db.artifacts :
        /\ db.artifacts[id].type = artifact.type
        /\ Lower(db.artifacts[id].value) = Lower(artifact.value)
        /\ db.artifacts[id].id # artifact.id}

\* the merge of _deduplicate_artifacts into the stored artifact of highest
\* confidence (intelligence.py:363-368); metadata.update(...) makes the
\* candidate's metadata win
MergeInto(db, similar, artifact) ==
    LET best == CHOOSE id \in similar :
                    \A o \in similar :
                        db.artifacts[o].confidence <= db.artifacts[id].confidence
        old  == db.artifacts[best]
    IN  IF artifact.confidence > old.confidence
        THEN [db EXCEPT !.artifacts[best] =
                 [old EXCEPT !.confidence = artifact.confidence,
                             !.tags = old.tags \cup artifact.tags,
                             !.metadata = IF artifact.metadata = <<>>
                                          THEN old.metadata
                                          ELSE artifact.metadata]]
        ELSE db

\* _deduplicate_artifacts (intelligence.py:349-374) on the first n candidates:
\* the database after the merges, the ids seen and the list kept so far
RECURSIVE DeduplicateArtifacts(_, _, _)
DeduplicateArtifacts(db, candidates, n) ==
    IF n = 0 THEN [db |-> db, seen_ids |-> {}, deduplicated |-> <<>>]
    ELSE LET before   == DeduplicateArtifacts(db, candidates, n - 1)
             artifact == candidates[n]
             similar  == FindSimilarArtifacts(before.db, artifact)
         IN  IF artifact.id \in before.seen_ids THEN before
             ELSE IF similar # {}
                  THEN [before EXCEPT !.db = MergeInto(before.db, similar, artifact)]
                  ELSE [before EXCEPT
                            !.seen_ids = @ \cup {artifact.id},
                            !.deduplicated = Append(@, artifact)]

RECURSIVE AddAll(_, _)
AddAll(db, arts) ==
    IF arts = <<>> THEN db ELSE AddAll(AddArtifact(db, Head(arts)), Tail(arts))

\* result.get("result") of a task that has none
NoResult == <<>>

\* process_plugin_results that looks at the payload of every entry, whatever
\* its status
Candidates_AnyStatus(results) ==
    Flatten([i \in 1..Len(results) |->
        IF results[i].result = NoResult
        THEN <<>>
        ELSE ExtractArtifactsFromParsedData(results[i].result[1], results[i].plugin)])

\* A results map is the sequence of its values in insertion order; a value is
\* [status, plugin, result] and result is NoResult or <<parsed data>>, the
\* parsed data of the envelope the plugin returned.
\* The candidates process_plugin_results extracts (intelligence.py:180-194).
Candidates(results) ==
    Flatten([i \in 1..Len(results) |->
        IF results[i].status # COMPLETED \/ results[i].result = NoResult
        THEN <<>>
        ELSE ExtractArtifactsFromParsedData(results[i].result[1], results[i].plugin)])

\* process_plugin_results (intelligence.py:168-203): the database after the
\* call and the list it returns
ProcessPluginResults(db, results) ==
    LET found == Candidates(results)
        dd    == DeduplicateArtifacts(db, found, Len(found))
    IN  [db |-> AddAll(dd.db, dd.deduplicated), deduplicated |-> dd.deduplicated]

\* tag_artifacts (intelligence.py:430-447) with the filter "is of type t"
TagArtifacts(db, tag, t) ==
    [db EXCEPT !.artifacts =
        [id \in DOMAIN db.artifacts |->
            IF db.artifacts[id].type = t
            THEN [db.artifacts[id] EXCEPT !.tags = @ \cup {tag}]
            ELSE db.artifacts[id]]]

\* get_chainable_artifacts (intelligence.py:389-428): per chainable type the
\* set of values; "organizations" are the domains of the email values
ChainableTypes == {"domains", "ips", "emails", "hostnames", "organizations",
                   "people_names"}

GetChainableArtifacts(db) ==
    LET vals(t) == {db.artifacts[id].value :
                     id \in {i \in DOMAIN db.artifacts : db.artifacts[i].type = t}}
    IN  [domains       |-> vals("domain"),
         ips           |-> vals("ip"),
         emails        |-> vals("email"),
         hostnames     |-> vals("domain"),
         organizations |-> {EmailDomain(v) : v \in {w \in vals("email") :
                                                     \E i \in 1..Len(w) : w[i] = "@"}},
         people_names  |-> vals("person")]

\* the database the three variables hold
Db == [artifacts |-> artifacts, artifacts_by_type |-> artifacts_by_type,
       artifacts_by_source |-> artifacts_by_source]

SetDb(db) ==
    /\ artifacts' = db.artifacts
    /\ artifacts_by_type' = db.artifacts_by_type
    /\ artifacts_by_source' = db.artifacts_by_source

\* the parsed-data maps of the inputs: at most MaxEntries entries in all
FieldLists == UNION {[1..n -> InputValues] : n \in 0..MaxEntries}

ParsedData ==
    {pd \in [InputKeys -> FieldLists] :
        Len(pd["emails"]) + Len(pd["people"]) <= MaxEntries}

\* the payload of the entries of the inputs that are not completed
StrayPayload == [emails |-> << <<"b", "@", "x">> >>, people |-> <<>>]

\* the values of a results map: a completed task with its parsed data or
\* with no result, and a task of any other status with no result or with a
\* payload
TaskResults ==
    [status : {COMPLETED}, plugin : SourcePlugins,
     result : {<<pd>> : pd \in ParsedData}]
    \cup [status : {COMPLETED}, plugin : {"nmap"}, result : {NoResult}]
    \cup [status : TaskStatus \ {COMPLETED}, plugin : {"nmap"},
          result : {NoResult, <<StrayPayload>>}]

ResultMaps == UNION {[1..n -> TaskResults] : n \in 0..MaxBatchTasks}

NumOps(kind) == Cardinality({i \in 1..Len(ops) : ops[i].op = kind})

\* a call of process_plugin_results(results, target, category)
ProcessResults(results) ==
    /\ NumOps("process") < MaxIngests
    /\ SetDb(ProcessPluginResults(Db, results).db)
    /\ ops' = Append(ops, [op |-> "process", results |-> results, type |-> None])

\* a call of tag_artifacts(ReviewTag, lambda a: a.type == t)
TagArtifactsOfType(t) ==
    /\ NumOps("tag") < MaxTaggings
    /\ t \in DOMAIN artifacts_by_type
    /\ SetDb(TagArtifacts(Db, ReviewTag, t))
    /\ ops' = Append(ops, [op |-> "tag", results |-> <<>>, type |-> t])

\* ------------------------------------------ investigation (detectivejoe.py)
\* An investigation is modelled with the pool taken by its contract:
\* execute_plugin_batch submits one task per plugin it is given
\* (async_worker.py:162-171) and gives back one result per task, whose status
\* is any status wait_for_tasks can report.  run_investigation_async is
\* called by one coroutine at a time (detectivejoe.py:691, 734).

\* the keys of INVESTIGATION_TYPES (config.py:63-68)
INVESTIGATION_TYPES == {"1", "2", "3", "4"}

\* the investigation types a caller passes: a key and a string that is none
InputTypes == {"1", "9"}

\* the plugins that have a manifest, and manifest.chain_priority of each
JoePlugins == {"nmap", "theharvester", "demo"}

ChainPriority == [nmap |-> 1, theharvester |-> 2, demo |-> 3]

\* profile["tools"][category] of the profiles under study
ProfileToolLists == {<<>>, <<"nmap">>, <<"nmap", "theharvester">>}

\* artifacts["consumes"] of the manifests under study
ConsumesChoices == {{}, {"domains"}, {"domains", "ips"}, {"domains", "hostnames"}}

Aggressiveness == {"low", "medium", "high"}

\* largest scan_depth of a profile
MaxDepth == 2
\* number of domain artifacts the store was saved with
MaxStored == 11
\* number of hosts, and of ips, the primary batch discovers
MaxYield == 1
\* number of investigations one DetectiveJoe object runs
MaxRuns == 1
\* number of hosts the chained tasks discover
MaxChainYield == 1
\* the last pair of a chaining pass whose call may raise
MaxFailAt == 1
\* largest "timeout" (in seconds) of a profile under study
MaxTimeout == 2

\* "timeout" of the built-in profile (detectivejoe.py:138)
StandardTimeout == 120

\* the caps of _perform_artifact_chaining (detectivejoe.py:427, 429, 437)
LowCandidates == 1
MediumCandidates == 2
LowTargets == 5
OtherTargets == 10

\* str(i) for the numbers that name the discovered hosts
Digits == <<"0", "1", "2", "3", "4", "5", "6", "7", "8", "9">>

Str(i) == IF i < 10 THEN <<Digits[i + 1]>>
          ELSE <<Digits[(i \div 10) + 1], Digits[(i % 10) + 1]>>

\* the i-th host name and the i-th address of the inputs
HostValue(i) == <<"h">> \o Str(i)
IpValue(i) == <<"i">> \o Str(i)

\* load_from_disk (intelligence.py:131-148) on a file that holds n domain
\* artifacts a former run saved
LoadFromDisk(n) ==
    AddAll(EmptyDb, [i \in 1..n |-> NewArtifact("hosts", HostValue(i), "nmap")])

\* what run_investigation_async has given back: nothing yet, an exception,
\* {"error": ...} or the investigation result
NoReturn ==
    [kind |-> "none", investigation_type |-> None, error |-> None,
     plugin_results |-> <<>>, artifacts |-> <<>>, chained_tasks |-> <<>>,
     summary |-> None]

Raised(t, e) == [NoReturn EXCEPT !.kind = "raised", !.investigation_type = t,
                                 !.error = e]

\* return {"error": ...} (detectivejoe.py:300, 334)
ErrorObject(t, e) == [NoReturn EXCEPT !.kind = "error", !.investigation_type = t,
                                      !.error = e]

\* except Exception as e: return {"error": str(e)} (detectivejoe.py:384-386)
Caught_Reraises(t, e) == Raised(t, e)

Caught(t, e) == ErrorObject(t, e)

\* a key an envelope of PluginBase.execute does not have
Absent == <<>>

\* no call of execute yet: its arguments, whether validate_target was
\* called, the command built, the processes spawned, what the call met and
\* the envelope returned
NoExecution ==
    [pc |-> "idle", calls |-> 0, plugin |-> None, target |-> <<>>,
     category |-> None, validated |-> FALSE, command |-> Absent,
     spawned |-> 0, event |-> None, ret |-> Absent]

\* InvestigationState.status (state_manager.py:28)
InvestigationStatuses == {"inactive", "running", "paused", "completed", "failed",
                          "killed"}

\* the state ids of the investigations under study
StateIds == {"a", "b"}

\* no such file in the state directory
NoFile == "absent"

\* a file that neither json.load nor pickle.load can read
Corrupt == "corrupt"

\* the two files of a state id, none of them there
NoFiles == [json |-> NoFile, pkl |-> NoFile]

\* no StateManager yet and an empty state directory: whether one was built
\* and with signal handlers, current_state (its state_id and status),
\* kill_requested, per state id the status its two files hold, and the
\* calls made: how many, the last one, its argument, what it returned
NoStateManager ==
    [built |-> FALSE, handlers |-> FALSE, state_id |-> None,
     status |-> "inactive", kill_requested |-> FALSE,
     files |-> [id \in StateIds |-> NoFiles],
     calls |-> 0, op |-> None, arg |-> None, ret |-> None]

\* the frame of run_investigation_async: the plugins of the primary batch,
\* results and artifacts, and of the chaining pass the values the store held
\* when it began, the (plugin, value) pairs it went through, the pair whose
\* call raised (0: none), the items of chained_results and the time its
\* batches waited for their task at most (none when it ran no batch)
NoInvestigation ==
    [run |-> 0, investigation_type |-> None, submitted_before |-> 0,
     primary |-> <<>>, results |-> <<>>, artifacts |-> <<>>, chained |-> FALSE,
     after_primary |-> {}, pairs |-> <<>>, failed |-> 0,
     chained_results |-> <<>>, chained_wait |-> Absent]

\* DetectiveJoe.__init__ (detectivejoe.py:51-103) with the profile p, the
\* loaded plugins ps of which av are available, the manifests m and a store
\* file of n artifacts
JoeInit(p, ps, av, m, n) ==
    /\ profile = p
    /\ plugins = ps
    /\ available = av
    /\ manifests = m
    /\ artifacts = LoadFromDisk(n).artifacts
    /\ artifacts_by_type = LoadFromDisk(n).artifacts_by_type
    /\ artifacts_by_source = LoadFromDisk(n).artifacts_by_source
    /\ ops = <<>>
    /\ investigation_state = [active |-> FALSE, chained_tasks |-> <<>>]
    /\ ipc = "idle"
    /\ inv = NoInvestigation
    /\ inv_ret = NoReturn
    /\ px = NoExecution

\* the "standard" profile of _get_default_config (detectivejoe.py:132-153)
\* for the category "website"; the keys it lacks read as their defaults
\* (detectivejoe.py:353, 410)
StandardProfile ==
    [tools |-> <<"nmap", "theharvester">>, enable_chaining |-> TRUE,
     scan_depth |-> 1, aggressiveness |-> "medium", timeout |-> StandardTimeout]

\* the profiles under study; one that never chains never reads its
\* aggressiveness and is given the default; the timeout, which plays no
\* part in what is chained, takes every value in the profiles that chain
\* with aggressiveness low and the largest value in the others
Profiles ==
    {p \in [tools : ProfileToolLists, enable_chaining : BOOLEAN,
            scan_depth : 1..MaxDepth, aggressiveness : Aggressiveness,
            timeout : 1..MaxTimeout] :
        /\ (p.enable_chaining /\ p.scan_depth > 1) \/ p.aggressiveness = "medium"
        /\ (p.enable_chaining /\ p.scan_depth > 1 /\ p.aggressiveness = "low")
               \/ p.timeout = MaxTimeout}

\* the manifests under study: only nmap may consume more than domains
Manifests ==
    {m \in [JoePlugins -> ConsumesChoices] :
        \A name \in JoePlugins \ {"nmap"} : m[name] \subseteq {"domains"}}

\* the plugins of available_plugins (detectivejoe.py:303-308)
AvailablePlugins_AllConfigured == profile.tools

AvailablePlugins ==
    SelectSeq(profile.tools, LAMBDA name : name \in plugins /\ name \in available)

\* the gate of the chaining pass (detectivejoe.py:353)
ChainingGate_IgnoresFlag == profile.scan_depth > 1

ChainingGate == profile.enable_chaining /\ profile.scan_depth > 1

\* a list of the elements of a set, as list(set(...)) gives one
RECURSIVE ListOf(_)
ListOf(S) ==
    IF S = {} THEN <<>>
    ELSE LET x == CHOOSE y \in S : TRUE IN <<x>> \o ListOf(S \ {x})

\* a sort that puts the largest chain_priority first
RECURSIVE SortByPriority_Descending(_)
SortByPriority_Descending(S) ==
    IF S = {} THEN <<>>
    ELSE LET x == CHOOSE y \in S : \A z \in S : ChainPriority[y] >= ChainPriority[z]
         IN  <<x>> \o SortByPriority_Descending(S \ {x})

\* names.sort(key=chain_priority) (discovery.py:204)
RECURSIVE SortByPriority(_)
SortByPriority(S) ==
    IF S = {} THEN <<>>
    ELSE LET x == CHOOSE y \in S : \A z \in S : ChainPriority[y] <= ChainPriority[z]
         IN  <<x>> \o SortByPriority(S \ {x})

\* get_chaining_candidates([artifact_type]) (discovery.py:187-205)
GetChainingCandidates(artifact_type) ==
    SortByPriority({name \in DOMAIN manifests : artifact_type \in manifests[name]})

\* s[:n]
Take(s, n) == SubSeq(s, 1, IF Len(s) < n THEN Len(s) ELSE n)

\* the candidates kept for an aggressiveness (detectivejoe.py:425-430)
LimitCandidates(candidates) ==
    IF profile.aggressiveness = "low" THEN Take(candidates, LowCandidates)
    ELSE IF profile.aggressiveness = "medium" THEN Take(candidates, MediumCandidates)
    ELSE candidates

\* chain_targets (detectivejoe.py:437)
ChainTargets_All(values) == values

ChainTargets(values) ==
    IF profile.aggressiveness = "low" THEN Take(values, LowTargets)
    ELSE Take(values, OtherTargets)

\* the order of the keys of the chainable map (intelligence.py:399-406)
ChainOrder == <<"domains", "ips", "emails", "hostnames", "organizations",
                "people_names">>

\* the chain records one artifact type adds (detectivejoe.py:418-461): one
\* per kept candidate that is loaded and available and per kept value
ChainRecordsOfType(db, artifact_type, status) ==
    LET values     == ListOf(GetChainableArtifacts(db)[artifact_type])
        candidates == LimitCandidates(GetChainingCandidates(artifact_type))
        runnable   == SelectSeq(candidates,
                          LAMBDA name : name \in plugins /\ name \in available)
        targets    == ChainTargets(values)
    IN  Flatten([c \in 1..Len(runnable) |->
            [v \in 1..Len(targets) |->
                [plugin |-> runnable[c], target |-> targets[v],
                 source_artifact_type |-> artifact_type, status |-> status]]])

\* _perform_artifact_chaining (detectivejoe.py:391-467): the chain records
\* it appends, one per secondary task
PerformArtifactChaining(db, status) ==
    IF profile.scan_depth <= 1 THEN <<>>
    ELSE Flatten([k \in 1..Len(ChainOrder) |->
             ChainRecordsOfType(db, ChainOrder[k], status)])

\* _generate_summary (detectivejoe.py:605-637); it reads each artifact with
\* artifact.get("type", ...), which an Artifact object does not have: with a
\* non-empty list it raises AttributeError
GenerateSummary(results, arts) ==
    IF arts # <<>> THEN [raised |-> TRUE, summary |-> None]
    ELSE LET ok == Cardinality({i \in 1..Len(results) : results[i].status = COMPLETED})
         IN  [raised |-> FALSE,
              summary |-> [total_tasks |-> Len(results), successful_tasks |-> ok,
                           failed_tasks |-> Len(results) - ok,
                           total_artifacts |-> Len(arts)]]

\* the end of run_investigation_async (detectivejoe.py:363-389): enrichment
\* leaves domains and addresses as they are, the summary is built and the
\* result, or the error the summary raised, is returned
ReturnInvestigation(results, arts, chained) ==
    LET s == GenerateSummary(results, arts)
    IN  /\ inv_ret' = IF s.raised
                      THEN Caught(inv.investigation_type, "AttributeError")
                      ELSE [kind |-> "result",
                            investigation_type |-> inv.investigation_type,
                            error |-> None, plugin_results |-> results,
                            artifacts |-> arts, chained_tasks |-> chained,
                            summary |-> s.summary]
        /\ investigation_state' = [active |-> FALSE, chained_tasks |-> chained]
        /\ ipc' = "idle"

\* everything but the investigation, the store and the submit counter
asyncVars == <<running, workers, wstate, wtask, cancel_requested, task_objs,
               tasks, task_queue, semaphore, PLUGIN_REGISTRY, clock,
               clientVars>>

envVars == <<profile, plugins, available, manifests, px, sm>>

\* run_investigation_async up to its first suspension (detectivejoe.py:
\* 264-345): the type check, the reset of the investigation state, the two
\* early returns and the submission of the primary batch
RunInvestigationBegin(t) ==
    /\ ipc = "idle"
    /\ inv.run < MaxRuns
    /\ UNCHANGED <<asyncVars, storeVars, ops, envVars>>
    /\ IF t \notin INVESTIGATION_TYPES
       THEN /\ inv_ret' = Raised(t, "ValueError")
            /\ UNCHANGED <<inv, investigation_state, ipc, stats>>
       ELSE /\ inv' = [NoInvestigation EXCEPT
                          !.run = inv.run + 1,
                          !.investigation_type = t,
                          !.submitted_before = stats.tasks_submitted,
                          !.primary = IF profile.tools = <<>> THEN <<>>
                                      ELSE AvailablePlugins]
            /\ IF profile.tools = <<>>
               THEN /\ inv_ret' = ErrorObject(t, "No tools configured")
                    /\ investigation_state' = [active |-> FALSE, chained_tasks |-> <<>>]
                    /\ UNCHANGED <<ipc, stats>>
               ELSE IF AvailablePlugins = <<>>
               THEN /\ inv_ret' = ErrorObject(t, "No available plugins")
                    /\ investigation_state' = [active |-> FALSE, chained_tasks |-> <<>>]
                    /\ UNCHANGED <<ipc, stats>>
               ELSE /\ inv_ret' = NoReturn
                    /\ investigation_state' = [active |-> TRUE, chained_tasks |-> <<>>]
                    /\ stats' = [stats EXCEPT !.tasks_submitted = @ + Len(AvailablePlugins)]
                    /\ ipc' = "primary"

\* the statuses the tasks of the primary batch end with
PrimaryStatuses == {COMPLETED, FAILED}

\* the results map of the primary batch: the first task that completed
\* carries yh new hosts and yi new addresses in its parsed data
PrimaryResults(statuses, yh, yi) ==
    LET done  == {i \in 1..Len(statuses) : statuses[i] = COMPLETED}
        first == IF done = {} THEN 0 ELSE CHOOSE i \in done : \A j \in done : i <= j
        known == Cardinality(DOMAIN artifacts)
    IN  [i \in 1..Len(statuses) |->
            [status |-> statuses[i], plugin |-> inv.primary[i],
             result |-> IF statuses[i] # COMPLETED THEN NoResult
                        ELSE IF i = first
                        THEN <<[hosts |-> [k \in 1..yh |-> HostValue(known + k)],
                                ips   |-> [k \in 1..yi |-> IpValue(k)]]>>
                        ELSE <<[hosts |-> <<>>, ips |-> <<>>]>>]]

\* the primary batch returns (detectivejoe.py:339-354): its results are
\* processed; without chaining the investigation ends here
PrimaryReturns(statuses, yh, yi) ==
    /\ ipc = "primary"
    /\ Len(statuses) = Len(inv.primary)
    /\ LET results == PrimaryResults(statuses, yh, yi)
           done    == ProcessPluginResults(Db, results)
       IN  /\ SetDb(done.db)
           /\ inv' = [inv EXCEPT
                         !.results = results,
                         !.artifacts = done.deduplicated,
                         !.after_primary =
                             {done.db.artifacts[id].value : id \in DOMAIN done.db.artifacts}]
           /\ IF ChainingGate
              THEN /\ ipc' = "chaining"
                   /\ UNCHANGED <<inv_ret, investigation_state>>
              ELSE ReturnInvestigation(results, done.deduplicated, <<>>)
    /\ UNCHANGED <<asyncVars, stats, ops, envVars>>

\* the statuses a chained task is recorded with
ChainedStatuses == {COMPLETED, FAILED}

\* default_timeout of the pool DetectiveJoe builds: the profile's timeout
\* (detectivejoe.py:82-83)
PoolDefaultTimeout == profile.timeout

\* the timeout argument of a chained batch: timeout // 2
\* (detectivejoe.py:446)
ChainedTimeout == profile.timeout \div 2

\* wait_timeout = timeout or self.default_timeout (async_worker.py:193): a
\* timeout of 0 is false and gives way to the default
WaitTimeout(timeout, default_timeout) ==
    IF timeout = 0 THEN default_timeout ELSE timeout

\* a chaining pass followed by a second one over the store as the chained
\* results leave it
ChainingRounds_Recursive(db, grown, status) ==
    PerformArtifactChaining(db, status) \o PerformArtifactChaining(grown, status)

\* the pairs one investigation chains: _perform_artifact_chaining is called
\* once, before the chained results are processed (detectivejoe.py:354-361)
ChainingRounds(db, grown, status) == PerformArtifactChaining(db, status)

\* s without its i-th element (all of s when it has none)
Drop(s, i) ==
    IF i \notin 1..Len(s) THEN s
    ELSE [k \in 1..(Len(s) - 1) |-> IF k < i THEN s[k] ELSE s[k + 1]]

\* d[key] = value on a dict kept as the list of its items
DictPut(items, key, value) ==
    IF \E i \in 1..Len(items) : items[i].key = key
    THEN [i \in 1..Len(items) |->
             IF items[i].key = key THEN [key |-> key, value |-> value]
             ELSE items[i]]
    ELSE Append(items, [key |-> key, value |-> value])

\* a key without the sequence number
ChainedKey_NoSequence(plugin_name, target, n) ==
    [plugin |-> plugin_name, target |-> target, n |-> 0]

\* f"chained_{plugin_name}_{target}_{len(chained_results)}"
\* (detectivejoe.py:452)
ChainedKey(plugin_name, target, n) ==
    [plugin |-> plugin_name, target |-> target, n |-> n]

\* the result entries of the chained tasks: the first that completed carries
\* yc hosts the store does not hold yet or, again, the host it was run
\* against
ChainedEntries(records, yc, again) ==
    LET done  == {i \in 1..Len(records) : records[i].status = COMPLETED}
        first == IF done = {} THEN 0 ELSE CHOOSE i \in done : \A j \in done : i <= j
        known == Cardinality(DOMAIN artifacts)
    IN  [i \in 1..Len(records) |->
            [status |-> records[i].status, plugin |-> records[i].plugin,
             result |-> IF records[i].status # COMPLETED THEN NoResult
                        ELSE IF i = first
                        THEN <<[hosts |-> IF again THEN <<records[i].target>>
                                          ELSE [k \in 1..yc |-> HostValue(known + k)],
                                ips   |-> <<>>]>>
                        ELSE <<[hosts |-> <<>>, ips |-> <<>>]>>]]

\* chained_results, which holds items, after the results of the records from
\* the n-th on are stored too (detectivejoe.py:451-453)
RECURSIVE ChainedResults(_, _, _, _)
ChainedResults(items, records, entries, n) ==
    IF n > Len(records) THEN items
    ELSE ChainedResults(
             DictPut(items,
                     ChainedKey(records[n].plugin, records[n].target, Len(items)),
                     entries[n]),
             records, entries, n + 1)

\* the chaining pass and the end of the investigation (detectivejoe.py:
\* 354-389): every pair is one execute_plugin_batch call of one plugin, which
\* submits one task and gives back its result; the call of the pair fail_at
\* raises before it submits (the exception is caught at detectivejoe.py:
\* 463-464).  The chained results are then merged and processed.
ChainingPass(status, fail_at, yc, again) ==
    /\ ipc = "chaining"
    /\ \E first \in {PerformArtifactChaining(Db, status)} :
       \E pairs \in {ChainingRounds(
                         Db, ProcessPluginResults(Db, ChainedEntries(first, yc, again)).db,
                         status)} :
       \E records \in {Drop(pairs, fail_at)} :
       \E items \in {ChainedResults(<<>>, records,
                                        ChainedEntries(records, yc, again), 1)} :
       \E chained_results \in {[i \in 1..Len(items) |-> items[i].value]} :
       \E done \in {IF items = <<>> THEN [db |-> Db, deduplicated |-> <<>>]
                    ELSE ProcessPluginResults(Db, chained_results)} :
           /\ fail_at <= Len(pairs)
           /\ stats' = [stats EXCEPT !.tasks_submitted = @ + Len(records)]
           /\ SetDb(done.db)
           /\ inv' = [inv EXCEPT !.chained = TRUE,
                                 !.pairs = pairs,
                                 !.failed = fail_at,
                                 !.chained_results = items,
                                 !.chained_wait =
                                     IF records = <<>> THEN Absent
                                     ELSE <<WaitTimeout(ChainedTimeout,
                                                        PoolDefaultTimeout)>>,
                                 !.results = @ \o chained_results,
                                 !.artifacts = @ \o done.deduplicated]
           /\ ReturnInvestigation(inv.results \o chained_results,
                                  inv.artifacts \o done.deduplicated, records)
    /\ UNCHANGED <<asyncVars, ops, envVars>>

\* ------------------------------------------- PluginBase.execute (base.py)
\* One call of plugin.execute(target, category) followed step by step: the
\* checks and the spawn up to the subprocess wait, then what the wait ends
\* with.  self.plugins holds the plugin objects and "available" those whose
\* is_available() is True.

\* the plugins whose execute is followed: one that overrides validate_target
\* with checks of its own and one that only refuses blank targets
ExecPlugins == {"nmap", "demo"}

\* the targets of the inputs: "", " ", "h1", "http://h1", "HTTP://h1", "h1;"
Targets == {<<>>, <<" ">>, <<"h", "1">>, <<"http://", "h", "1">>,
            <<"HTTP://", "h", "1">>, <<"h", "1", ";">>}

Categories == {"website", "ip_server"}

\* calls of execute one plugin object serves
MaxCalls == 2

\* target.strip() of a target written with the characters above
Strip(target) == SelectSeq(target, LAMBDA c : c # " ")

\* validate_target of NmapPlugin (nmap_plugin.py:188-215) and of DemoPlugin
\* (demo_plugin.py:80-84)
ValidateTarget(name, target, category) ==
    IF target = <<>> \/ Strip(target) = <<>> THEN FALSE
    ELSE IF name = "nmap"
         THEN /\ Lower(target)[1] \notin {"http://", "https://"}
              /\ \A i \in 1..Len(target) :
                    target[i] \notin {"<", ">", "\"", "'", "&", "|", ";"}
         ELSE TRUE

\* build_command (nmap_plugin.py:37-94, demo_plugin.py:29-38) without
\* keyword arguments: the tool, what the category adds, the target
BuildCommand(name, target, category) ==
    <<name, category>> \o target

\* the dicts execute returns (base.py:121-127, 130-136, 166-177, 185-192,
\* 196-202); command and parsed_data are Absent or a one-element list
Envelope(status, name, target, category, command) ==
    [status |-> status, plugin |-> name, target |-> target,
     category |-> category, command |-> command, parsed_data |-> Absent]

\* execute with the target validated before the availability check
SyncEvent_ValidatesFirst(name, target, category) ==
    IF ~ValidateTarget(name, target, category) THEN "invalid_target"
    ELSE IF name \notin available THEN "unavailable"
    ELSE "spawned"

\* what execute meets before its first await (base.py:120-151)
SyncEvent(name, target, category) ==
    IF name \notin available THEN "unavailable"
    ELSE IF ~ValidateTarget(name, target, category) THEN "invalid_target"
    ELSE "spawned"

\* execute up to its first await (base.py:107-151)
ExecuteBegin(name, target, category) ==
    /\ px.pc \in {"idle", "done"}
    /\ px.calls < MaxCalls
    /\ name \in plugins
    /\ LET e == SyncEvent(name, target, category)
           called == [NoExecution EXCEPT
                         !.calls = px.calls + 1, !.plugin = name,
                         !.target = target, !.category = category,
                         !.event = e,
                         !.validated = (e # "unavailable")]
       IN  px' = IF e = "spawned"
                 THEN [called EXCEPT
                          !.pc = "communicate",
                          !.command = <<BuildCommand(name, target, category)>>,
                          !.spawned = 1]
                 ELSE [called EXCEPT
                          !.pc = "done",
                          !.ret = <<Envelope(PluginExecute(e).status, name,
                                             target, category, Absent)>>]
    /\ UNCHANGED <<asyncVars, stats, storeVars, ops, profile, plugins,
                   available, manifests, investigation_state, ipc, inv, inv_ret,
                   sm>>

\* the subprocess wait of execute ends (base.py:153-202): only the timeout
\* envelope carries the command
ExecuteFinish(e) ==
    /\ px.pc = "communicate"
    /\ px' = [px EXCEPT
                 !.pc = "done",
                 !.event = e,
                 !.ret = <<Envelope(PluginExecute(e).status, px.plugin,
                                    px.target, px.category,
                                    IF e = "process_hangs" THEN px.command
                                    ELSE Absent)>>]
    /\ UNCHANGED <<asyncVars, stats, storeVars, ops, profile, plugins,
                   available, manifests, investigation_state, ipc, inv, inv_ret,
                   sm>>

\* ------------------------------------------------------------ specification
WaitIdSets == {ids \in SUBSET TaskIds : ids # {} /\ Cardinality(ids) <= MaxWaitIds}

\* a pool of its own, as the tests build it (test_framework.py:159), beside a
\* DetectiveJoe object that runs no investigation
Init ==
    /\ PoolInit
    /\ JoeInit(StandardProfile, {"nmap", "theharvester"}, {},
               [name \in JoePlugins |-> {}], 0)
    /\ sm = NoStateManager

\* what the pool's coroutines leave alone
restVars == <<storeVars, ops, joeVars>>

Next ==
    \/ Start /\ UNCHANGED restVars
    \/ StopBegin /\ UNCHANGED restVars
    \/ StopReturn /\ UNCHANGED restVars
    \/ \E p \in PluginNames, ms \in Now : SubmitTask(p, ms) /\ UNCHANGED restVars
    \/ \E ps \in BatchPlugins, ms \in Now :
          ExecutePluginBatch(ps, ms) /\ UNCHANGED restVars
    \/ \E ids \in WaitIdSets : WaitForTasks(ids) /\ UNCHANGED restVars
    \/ WaitReturnComplete /\ UNCHANGED restVars
    \/ WaitReturnTimeout /\ UNCHANGED restVars
    \/ \E S \in RegistryChoices : InitPlugins(S) /\ UNCHANGED restVars
    \/ \E w \in WorkerIds, e \in SyncEvents :
          WorkerExecuteTask(w, e) /\ UNCHANGED restVars
    \/ \E w \in WorkerIds, e \in AsyncEvents :
          WorkerFinishTask(w, e) /\ UNCHANGED restVars
    \/ \E w \in WorkerIds : WorkerCancelled(w) /\ UNCHANGED restVars

Spec == Init /\ [][Next]_vars

\* The semaphore has as many slots as there are workers and a worker holds at
\* most one, so "async with self.semaphore" never suspends a worker.
SemaphoreNeverBlocks ==
    \A w \in WorkerIds : wstate[w] = "get" => semaphore > 0

\* The pool while nobody calls stop(): the worker loops are scheduled fairly
\* by the event loop, and a started plugin.execute returns, because the
\* subprocess wait is bounded by exec_timeout (base.py:154-157, 179-183).
NextRunning ==
    \/ Start /\ UNCHANGED restVars
    \/ \E p \in PluginNames, ms \in Now :
          SubmitTask(p, ms) /\ Len(task_objs') <= MaxLiveTasks /\ UNCHANGED restVars
    \/ \E ps \in BatchPlugins, ms \in Now :
          /\ ExecutePluginBatch(ps, ms)
          /\ Len(task_objs') <= MaxLiveTasks
          /\ UNCHANGED restVars
    \/ \E ids \in WaitIdSets : WaitForTasks(ids) /\ UNCHANGED restVars
    \/ WaitReturnComplete /\ UNCHANGED restVars
    \/ WaitReturnTimeout /\ UNCHANGED restVars
    \/ \E S \in RegistryChoices : InitPlugins(S) /\ UNCHANGED restVars
    \/ \E w \in WorkerIds, e \in SyncEvents :
          WorkerExecuteTask(w, e) /\ UNCHANGED restVars
    \/ \E w \in WorkerIds, e \in AsyncEvents :
          WorkerFinishTask(w, e) /\ UNCHANGED restVars

LiveSpec ==
    /\ Init
    /\ [][NextRunning]_vars
    /\ WF_vars(\E w \in WorkerIds, e \in SyncEvents :
                  WorkerExecuteTask(w, e) /\ UNCHANGED restVars)
    /\ WF_vars(\E w \in WorkerIds, e \in AsyncEvents :
                  WorkerFinishTask(w, e) /\ UNCHANGED restVars)

\* The artifact store on its own: an engine on an empty storage directory
\* whose caller processes results maps and tags artifacts.
StoreNext ==
    \/ \E results \in ResultMaps :
          ProcessResults(results) /\ UNCHANGED <<asyncVars, stats, joeVars>>
    \/ \E t \in {"email", "person"} :
          TagArtifactsOfType(t) /\ UNCHANGED <<asyncVars, stats, joeVars>>

StoreSpec == Init /\ [][StoreNext]_vars

\* the loaded plugins and, of them, the available ones
LoadedChoices == {JoePlugins, JoePlugins \ {"demo"}}

\* the sizes of the store file: empty, one artifact, more than the values
\* low aggressiveness keeps, as many as the bound allows
StoredChoices == {0, 1, LowTargets + 3, MaxStored}

\* One DetectiveJoe object and its caller: a profile, loaded plugins,
\* manifests and a store file, then investigations.
InvInit ==
    /\ PoolInit
    /\ \E p \in Profiles, ps \in LoadedChoices, n \in StoredChoices :
          \E av \in SUBSET ps, m \in Manifests :
              JoeInit(p, ps, av, m, n)
    /\ sm = NoStateManager

InvNext ==
    \/ \E t \in InputTypes : RunInvestigationBegin(t)
    \/ \E statuses \in [1..Len(inv.primary) -> PrimaryStatuses] :
          \E yh \in 0..MaxYield, yi \in 0..MaxYield :
              PrimaryReturns(statuses, yh, yi)
    \/ \E status \in ChainedStatuses :
          \E fail_at \in 0..MaxFailAt, yc \in 0..MaxChainYield, again \in BOOLEAN :
              ChainingPass(status, fail_at, yc, again)

InvSpec == InvInit /\ [][InvNext]_vars

\* One plugin object at a time and its caller: the loaded plugins, those of
\* them that are available, then calls of execute.
ExecInit ==
    /\ PoolInit
    /\ \E av \in SUBSET ExecPlugins :
          JoeInit(StandardProfile, ExecPlugins, av, [name \in JoePlugins |-> {}], 0)
    /\ sm = NoStateManager

ExecNext ==
    \/ \E name \in ExecPlugins, target \in Targets, category \in Categories :
          ExecuteBegin(name, target, category)
    \/ \E e \in AsyncEvents : ExecuteFinish(e)

ExecSpec == ExecInit /\ [][ExecNext]_vars

\* The pool as one investigation run drives it: DetectiveJoe fills the
\* registry (detectivejoe.py:180-182) and calls execute_plugin_batch, once
\* for the primary batch and once per chained pair (detectivejoe.py:339,
\* 442); it neither submits a task directly nor stops the pool during a run.
\* The primary batch holds one plugin per entry of the profile's tool list
\* (detectivejoe.py:303-306), so a list that names a tool twice gives a batch
\* with the same plugin twice.
RunBatches == BatchPlugins \cup {<<"nmap", "nmap">>}

RunNext ==
    \/ \E ps \in RunBatches, ms \in Now :
          ExecutePluginBatch(ps, ms) /\ UNCHANGED restVars
    \/ WaitReturnComplete /\ UNCHANGED restVars
    \/ WaitReturnTimeout /\ UNCHANGED restVars
    \/ \E S \in RegistryChoices : InitPlugins(S) /\ UNCHANGED restVars
    \/ \E w \in WorkerIds, e \in SyncEvents :
          WorkerExecuteTask(w, e) /\ UNCHANGED restVars
    \/ \E w \in WorkerIds, e \in AsyncEvents :
          WorkerFinishTask(w, e) /\ UNCHANGED restVars

RunSpec == Init /\ [][RunNext]_vars

\* ------------------------------------------------------- the state manager

\* calls made on one StateManager
MaxOps == 4

\* how save_current_state ends (state_manager.py:151-167): both files
\* written; the JSON file opened and truncated but not written, the pickle
\* file not reached; the JSON file written and the pickle file opened and
\* truncated but not written (a full disk, or plugin results that cannot be
\* pickled)
SaveOutcomes == {"saved", "json_failed", "pickle_failed"}

\* the state directory when the manager is built: empty, or with the state
\* "a" of an earlier process, saved in full with any documented status but
\* the initial "inactive", which has no state_id and is never saved
InitialDirs ==
    {[id \in StateIds |-> NoFiles]}
        \cup {[id \in StateIds |->
                   IF id = "a" THEN [json |-> s, pkl |-> s] ELSE NoFiles] :
              s \in InvestigationStatuses \ {"inactive"}}

\* save_current_state (state_manager.py:141-167) of the manager m ending as
\* o: the manager with the files of its state id rewritten
SaveCurrentState(m, o) ==
    IF m.state_id = None
        THEN m
        ELSE [m EXCEPT !.files[m.state_id] =
                 CASE o = "saved" -> [json |-> m.status, pkl |-> m.status]
                   [] o = "json_failed" -> [@ EXCEPT !.json = Corrupt]
                   [] o = "pickle_failed" -> [json |-> m.status, pkl |-> Corrupt]]

\* load_state (state_manager.py:169-204): the status of the state read, the
\* pickle file first, the JSON file if there is no pickle file; None if
\* neither is there or the one read cannot be read
LoadState(m, id) ==
    IF m.files[id].pkl # NoFile
        THEN IF m.files[id].pkl = Corrupt THEN None ELSE m.files[id].pkl
        ELSE IF m.files[id].json \in {NoFile, Corrupt}
                 THEN None
                 ELSE m.files[id].json

\* the manager m after one more call op(arg) that gave ret
Called(m, op, arg, result) ==
    [m EXCEPT !.calls = @ + 1, !.op = op, !.arg = arg, !.ret = result]

\* everything but the state manager
smFrame == <<asyncVars, stats, storeVars, ops, profile, plugins, available,
             manifests, investigation_state, ipc, inv, inv_ret, px>>

\* StateManager(state_dir) (state_manager.py:79-99): line 97 reads the name
\* register_signal_handlers, which is "unbound" as state_manager.py stands,
\* or "False" or "True" as the importer set it; unbound, the constructor
\* raises NameError and no manager exists
NewStateManager(binding) ==
    /\ ~sm.built
    /\ sm.op = None
    /\ sm' = IF binding = "unbound"
                 THEN [sm EXCEPT !.op = "new", !.ret = "NameError"]
                 ELSE [sm EXCEPT !.built = TRUE, !.handlers = (binding = "True"),
                                 !.op = "new"]
    /\ UNCHANGED smFrame

\* SIGINT or SIGTERM with the handler registered (state_manager.py:100-107)
SignalHandler(o) ==
    /\ sm.built
    /\ sm.handlers
    /\ sm.calls < MaxOps
    /\ sm' = Called(IF sm.status = "running"
                        THEN SaveCurrentState([sm EXCEPT !.kill_requested = TRUE,
                                                         !.status = "killed"], o)
                        ELSE [sm EXCEPT !.kill_requested = TRUE],
                    "signal", None, None)
    /\ UNCHANGED smFrame

\* start_investigation (state_manager.py:109-139) when target, category and
\* the second of the call give the state id id
StartInvestigation(id, o) ==
    /\ sm.built
    /\ sm.calls < MaxOps
    /\ sm' = Called(SaveCurrentState([sm EXCEPT !.state_id = id,
                                                !.status = "running"], o),
                    "start", id, id)
    /\ UNCHANGED smFrame

\* resume_investigation(id) (state_manager.py:206-232)
ResumeInvestigation(id, o) ==
    /\ sm.built
    /\ sm.calls < MaxOps
    /\ sm' = IF LoadState(sm, id) = None
                 THEN Called(sm, "resume", id, "False")
             ELSE IF LoadState(sm, id) \notin {"paused", "failed", "killed"}
                 THEN Called(sm, "resume", id, "False")
             ELSE Called(SaveCurrentState([sm EXCEPT !.state_id = id,
                                                     !.status = "running"], o),
                         "resume", id, "True")
    /\ UNCHANGED smFrame

\* pause_investigation (state_manager.py:234-247)
PauseInvestigation(o) ==
    /\ sm.built
    /\ sm.calls < MaxOps
    /\ sm' = IF sm.status # "running"
                 THEN Called(sm, "pause", None, "False")
                 ELSE Called(SaveCurrentState([sm EXCEPT !.status = "paused"], o),
                             "pause", None, "True")
    /\ UNCHANGED smFrame

\* complete_investigation (state_manager.py:249-272)
CompleteInvestigation(o) ==
    /\ sm.built
    /\ sm.calls < MaxOps
    /\ sm' = IF sm.status \notin {"running", "paused"}
                 THEN Called(sm, "complete", None, "False")
                 ELSE Called(SaveCurrentState([sm EXCEPT !.status = "completed"], o),
                             "complete", None, "True")
    /\ UNCHANGED smFrame

\* kill_investigation (state_manager.py:274-291)
KillInvestigation(o) ==
    /\ sm.built
    /\ sm.calls < MaxOps
    /\ sm' = IF sm.status \notin {"running", "paused"}
                 THEN Called(sm, "kill", None, "False")
                 ELSE Called(SaveCurrentState([sm EXCEPT !.status = "killed",
                                                         !.kill_requested = TRUE], o),
                             "kill", None, "True")
    /\ UNCHANGED smFrame

\* One state directory, one process that builds a StateManager on it and
\* calls it.
StateInit ==
    /\ PoolInit
    /\ JoeInit(StandardProfile, {"nmap", "theharvester"}, {},
               [name \in JoePlugins |-> {}], 0)
    /\ \E dir \in InitialDirs : sm = [NoStateManager EXCEPT !.files = dir]

StateNext ==
    \/ \E binding \in {"unbound", "False", "True"} : NewStateManager(binding)
    \/ \E o \in SaveOutcomes : SignalHandler(o)
    \/ \E id \in StateIds, o \in SaveOutcomes : StartInvestigation(id, o)
    \/ \E id \in StateIds, o \in SaveOutcomes : ResumeInvestigation(id, o)
    \/ \E o \in SaveOutcomes : PauseInvestigation(o)
    \/ \E o \in SaveOutcomes : CompleteInvestigation(o)
    \/ \E o \in SaveOutcomes : KillInvestigation(o)

StateSpec == StateInit /\ [][StateNext]_vars

\* ------------------------------------------------------------------ claims

IsTerminal(t) == task_objs[t].status \in Terminal

\* the worker coroutines that have not ended
LiveWorkers == {w \in WorkerIds : wstate[w] \in {"get", "execute"}}

\* a task some worker is executing right now
Executing(t) == \E w \in WorkerIds : wstate[w] = "execute" /\ wtask[w] = t

\* C1: in every reachable state the number of tasks whose status is RUNNING
\* is at most max_workers.
C1_RunningAtMostMaxWorkers == NumRunning <= MaxWorkers

\* C2: a task's status moves only along PENDING -> RUNNING -> terminal: the
\* values assigned to it are PENDING, then RUNNING, then one terminal status;
\* it is PENDING exactly while it sits in the queue, and a task a worker is
\* executing is RUNNING while that worker holds a semaphore slot.
C2_StatusPath ==
    /\ \A t \in TaskIdx :
          LET h == task_objs[t].hist
          IN /\ h[Len(h)] = task_objs[t].status
             /\ Len(h) <= 3
             /\ h[1] = PENDING
             /\ Len(h) >= 2 => h[2] = RUNNING
             /\ Len(h) = 3 => h[3] \in Terminal
             /\ task_objs[t].status = PENDING <=> t \in Range(task_queue)
    /\ \A w \in WorkerIds :
          wstate[w] = "execute" =>
              /\ wtask[w] \in TaskIdx
              /\ task_objs[wtask[w]].status = RUNNING
    /\ semaphore = MaxWorkers - Cardinality({w \in WorkerIds : wstate[w] = "execute"})

\* C2 witness: one task went the whole path while another is executing and a
\* third is still queued
C2_Witness ==
    \E t1, t2, t3 \in TaskIdx :
        /\ task_objs[t1].hist = <<PENDING, RUNNING, COMPLETED>>
        /\ Executing(t2)
        /\ task_objs[t3].status = PENDING

\* number of terminal values ever assigned to the status of task t
TerminalEntries(h) == Cardinality({i \in 1..Len(h) : h[i] \in Terminal})

\* C3: terminal task states are immutable: no step of a worker, of
\* wait_for_tasks or of stop() changes the status of a task that is terminal,
\* and a task enters a terminal status at most once.
C3_TerminalImmutable ==
    [][\A t \in TaskIdx :
          /\ IsTerminal(t) => task_objs'[t] = task_objs[t]
          /\ TerminalEntries(task_objs'[t].hist) <= 1]_vars

\* C3 witness: stop() has returned and wait_for_tasks has reported, with a
\* finished task and a task that stop() interrupted side by side
C3_Witness ==
    /\ ~running
    /\ cpc = "idle"
    /\ \E t1, t2 \in TaskIdx :
          /\ IsTerminal(t1)
          /\ task_objs[t2].status = RUNNING
          /\ tasks[task_objs[t1].id] = t1
          /\ task_objs[t1].id \in DOMAIN ret

C5_TimeoutStatus ==
    \A t \in TaskIdx :
        task_objs[t].result = "timeout" => task_objs[t].status = TIMEOUT

\* C7: after stop() has returned no task of the pool has status RUNNING (a
\* task that was RUNNING when stop() was called is CANCELLED).
C7_NoRunningAfterStop ==
    (~running /\ cpc = "idle") => NumRunning = 0

\* C8: while the pool is running it holds exactly max_workers worker loops,
\* all alive, however often start() was called; once stop() has returned (and
\* before any start) it holds none and no worker coroutine is left.
C8_Lifecycle ==
    /\ running =>
          /\ Len(workers) = MaxWorkers
          /\ Range(workers) = LiveWorkers
          /\ Cardinality(LiveWorkers) = MaxWorkers
    /\ (~running /\ cpc = "idle") =>
          /\ workers = <<>>
          /\ \A w \in WorkerIds : wstate[w] = "none"

\* C8 witness: the pool runs again after a stop() that interrupted a task
C8_Witness ==
    /\ running
    /\ Len(workers) = MaxWorkers
    /\ \E t \in TaskIdx : task_objs[t].status = RUNNING /\ ~Executing(t)

\* C6: a per-task failure (the plugin raises, or the plugin is not in the
\* registry) is captured in that task alone: the step that makes a task FAILED
\* sets a non-empty error, ends no worker loop and leaves a worker at the
\* queue pull, touches no other task and drops nothing from the queue; and
\* from then on every submitted task still reaches a terminal status.
C6_FailureCaptured ==
    /\ [][\A t \in TaskIdx :
             (task_objs'[t].status = FAILED /\ task_objs[t].status # FAILED) =>
                 /\ task_objs'[t].error # None
                 /\ LiveWorkers' = LiveWorkers
                 /\ \E w \in WorkerIds : wstate[w] = "get" /\ wstate'[w] = "get"
                 /\ \A u \in TaskIdx \ {t} : task_objs'[u] = task_objs[u]
                 /\ task_queue' = Tail(task_queue)]_vars
    /\ \A t \in 1..MaxTasks :
          (t \in TaskIdx /\ task_objs[t].status = FAILED)
              ~> (\A u \in TaskIdx : IsTerminal(u))

\* C6 witness: a task failed and a task submitted after it completed, with
\* every worker loop still alive
C6_Witness ==
    /\ running
    /\ Cardinality(LiveWorkers) = MaxWorkers
    /\ \E t, u \in TaskIdx :
          /\ t < u
          /\ task_objs[t].status = FAILED
          /\ task_objs[t].error # None
          /\ task_objs[u].status = COMPLETED

\* C9: with the pool running and stop() never called, under fair scheduling
\* of the worker loops every submitted task eventually reaches a terminal
\* status.
C9_EveryTaskTerminates ==
    \A t \in 1..MaxTasks :
        (running /\ t \in TaskIdx) ~> (t \in TaskIdx /\ IsTerminal(t))

\* C9 witness: the pool is running, as many tasks as the run may hold were
\* submitted, and every one of them is terminal
C9_Witness ==
    /\ running
    /\ Len(task_objs) = MaxLiveTasks
    /\ \A t \in TaskIdx : IsTerminal(t)
    /\ task_queue = <<>>

\* C10: wait_for_tasks returns only when every requested task is terminal or
\* its timeout has elapsed; the step that returns changes no task, and reports
\* for each requested id the status its task has at that moment; a task it
\* reported as PENDING or RUNNING goes on to a terminal status (the pool
\* running).
C10_WaitOnlyReports ==
    /\ [][(ret' # ret /\ ret' # NoResults) =>
             /\ task_objs' = task_objs
             /\ task_queue' = task_queue
             /\ \A id \in DOMAIN ret' :
                   /\ id \in DOMAIN tasks
                   /\ ret'[id] = task_objs[tasks[id]].status
             /\ timed_out' \/ \A id \in DOMAIN ret' : ret'[id] \in Terminal]_vars
    /\ \A t \in 1..MaxTasks :
          (/\ running
           /\ cpc = "idle"
           /\ t \in TaskIdx
           /\ task_objs[t].id \in DOMAIN ret
           /\ tasks[task_objs[t].id] = t
           /\ ret[task_objs[t].id] \notin Terminal)
              ~> (t \in TaskIdx /\ IsTerminal(t))

\* C10 witness: wait_for_tasks timed out reporting a task as RUNNING, and the
\* task has completed since
C10_Witness ==
    /\ cpc = "idle"
    /\ timed_out
    /\ \E id \in DOMAIN ret :
          /\ ret[id] = RUNNING
          /\ task_objs[tasks[id]].status = COMPLETED

\* ------------------------------------------------- claims: investigation
\* no plugin of the profile's list is both loaded and available
NoToolUsable ==
    \A i \in 1..Len(profile.tools) :
        ~(profile.tools[i] \in plugins /\ profile.tools[i] \in available)

\* C11: when no plugin configured for the category is both registered and
\* available, an investigation of that category ends at once with an error
\* object, its list of plugins to run is empty and the pool's
\* tasks_submitted counter, which it leaves as it found it, is still 0.
C11_NoPluginNoTask ==
    (NoToolUsable /\ inv.run > 0) =>
        /\ ipc = "idle"
        /\ inv_ret.kind # "raised" => inv_ret.kind = "error"
        /\ inv.primary = <<>>
        /\ stats.tasks_submitted = inv.submitted_before
        /\ stats.tasks_submitted = 0

\* tools are configured, none is usable, and the investigation has returned
C11_Witness ==
    /\ NoToolUsable
    /\ profile.tools # <<>>
    /\ inv.run > 0
    /\ inv_ret.kind = "error"
    /\ stats.tasks_submitted = 0

C13_NeverRaises == inv_ret.kind # "raised"

\* C13: run_investigation_async raises only the ValueError of an
\* investigation type that is no key of INVESTIGATION_TYPES; with a valid
\* type every failure comes back as an error object.
C13_RaisesOnlyForInvalidType ==
    /\ inv_ret.kind = "raised" =>
          /\ inv_ret.investigation_type \notin INVESTIGATION_TYPES
          /\ inv_ret.error = "ValueError"
    /\ inv_ret.kind \in {"error", "result"} =>
          inv_ret.investigation_type \in INVESTIGATION_TYPES

\* an exception met inside a valid investigation came back as an error object
C13_Witness ==
    /\ inv_ret.kind = "error"
    /\ inv_ret.error = "AttributeError"
    /\ inv_ret.investigation_type \in INVESTIGATION_TYPES

\* the chain records of the last investigation that stem from one type
ChainedOfType(t) ==
    Cardinality({i \in 1..Len(investigation_state.chained_tasks) :
        investigation_state.chained_tasks[i].source_artifact_type = t})

\* the plugins whose manifest consumes a type
CandidatesFor(t) == {name \in DOMAIN manifests : t \in manifests[name]}

\* the candidates of a type that are loaded and available
Eligible(t) == {name \in CandidatesFor(t) : name \in plugins /\ name \in available}

\* C19: for each chainable type the chaining pass issues at most P x V
\* secondary tasks, P = 1 (low), 2 (medium) or the number of candidates
\* (high) and V = 5 (low) or 10; every chain record is one submitted task;
\* with low, 3 candidates that are all eligible (loaded and available) and 8
\* values of a type it issues exactly 5.
C19_AggressivenessCaps ==
    /\ \A t \in ChainableTypes :
          ChainedOfType(t) <=
              (CASE profile.aggressiveness = "low" -> 1
                 [] profile.aggressiveness = "medium" -> 2
                 [] OTHER -> Cardinality(CandidatesFor(t)))
              * (IF profile.aggressiveness = "low" THEN 5 ELSE 10)
    /\ inv.chained =>
          stats.tasks_submitted = inv.submitted_before + Len(inv.primary)
                                  + Len(investigation_state.chained_tasks)
    /\ \A t \in ChainableTypes :
          (/\ inv.chained
           /\ inv.failed = 0
           /\ profile.aggressiveness = "low"
           /\ Cardinality(CandidatesFor(t)) = 3
           /\ Eligible(t) = CandidatesFor(t)
           /\ Cardinality(GetChainableArtifacts(Db)[t]) = 8)
          => ChainedOfType(t) = 5

\* low, 3 eligible candidates, 8 domains: 5 secondary tasks were issued
C19_Witness ==
    /\ inv.chained
    /\ profile.aggressiveness = "low"
    /\ Cardinality(Eligible("domains")) = 3
    /\ Cardinality(GetChainableArtifacts(Db)["domains"]) = 8
    /\ ChainedOfType("domains") = 5
    /\ stats.tasks_submitted >= 5

\* C20: with enable_chaining false or scan_depth <= 1 an investigation
\* records no chain record and submits no task but those of its primary
\* batch.
C20_ChainingGate ==
    (~profile.enable_chaining \/ profile.scan_depth <= 1) =>
        /\ investigation_state.chained_tasks = <<>>
        /\ ~inv.chained
        /\ ipc # "chaining"
        /\ stats.tasks_submitted = inv.submitted_before + Len(inv.primary)

\* the flag alone closes the gate of an investigation that ran its primary
\* batch and had stored values some available plugin consumes
C20_Witness ==
    /\ ~profile.enable_chaining
    /\ profile.scan_depth > 1
    /\ inv_ret.kind = "result"
    /\ inv.primary # <<>>
    /\ PerformArtifactChaining(Db, COMPLETED) # <<>>
    /\ investigation_state.chained_tasks = <<>>

\* ------------------------------------------------------ claims: chaining
\* the values the store holds
StoredValues == {artifacts[id].value : id \in DOMAIN artifacts}

C26_IdentitiesOnlyGrow ==
    [][DOMAIN artifacts \subseteq DOMAIN artifacts']_vars

\* the store held artifacts from a former run, and the primary and the
\* chained results each added one
C26_Witness ==
    /\ inv.chained
    /\ Cardinality(inv.after_primary) >= 2
    /\ Len(inv.artifacts) >= 2
    /\ Cardinality(StoredValues) > Cardinality(inv.after_primary)
    /\ Cardinality(DOMAIN artifacts) > Len(inv.artifacts)

C30_OneRecordPerResult ==
    inv.chained =>
        LET chained_tasks == investigation_state.chained_tasks
            items == inv.chained_results
        IN  /\ Len(items) = Len(chained_tasks)
            /\ \A i, j \in 1..Len(items) : items[i].key = items[j].key => i = j
            /\ \A i \in 1..Len(items) :
                  /\ i <= Len(chained_tasks)
                  /\ items[i].key.plugin = chained_tasks[i].plugin
                  /\ items[i].key.target = chained_tasks[i].target
                  /\ items[i].value.status = chained_tasks[i].status

\* one plugin was chained to the same value twice, as a domain and as a
\* host name, and both results are kept
C30_Witness ==
    /\ inv.chained
    /\ \E i, j \in 1..Len(inv.chained_results) :
          /\ i # j
          /\ inv.chained_results[i].key.plugin = inv.chained_results[j].key.plugin
          /\ inv.chained_results[i].key.target = inv.chained_results[j].key.target
    /\ Len(inv.chained_results) = Len(investigation_state.chained_tasks)

\* ------------------------------------------------- claims: plugin execute
\* C23: execute on an available plugin with a valid target whose process
\* exits within the timeout returns an envelope of status success that
\* carries the plugin name, the target, the category, the command and the
\* parsed data.
C23_SuccessEnvelope ==
    (px.pc = "done" /\ px.event = "process_exits") =>
        /\ px.ret[1].status = "success"
        /\ px.ret[1].plugin = px.plugin
        /\ px.ret[1].target = px.target
        /\ px.ret[1].category = px.category
        /\ px.ret[1].command = px.command
        /\ px.ret[1].parsed_data # Absent

\* C24: execute on a plugin whose required tool is unavailable returns
\* status skipped, whatever the target and the category, before it validates
\* the target, builds a command or spawns a process.
C24_SkippedFirst ==
    (px.pc = "done" /\ px.plugin \notin available) =>
        /\ px.ret[1].status = "skipped"
        /\ px.ret[1].plugin = px.plugin
        /\ ~px.validated
        /\ px.command = Absent
        /\ px.spawned = 0

\* an unavailable plugin was called with a target it would have refused
C24_Witness ==
    /\ px.pc = "done"
    /\ px.plugin \notin available
    /\ ~ValidateTarget(px.plugin, px.target, px.category)
    /\ px.ret[1].status = "skipped"

\* C25: execute on an available plugin with a target that validate_target
\* refuses returns status rejected and spawns no process.
C25_RejectedStatus ==
    (/\ px.pc = "done"
     /\ px.plugin \in available
     /\ ~ValidateTarget(px.plugin, px.target, px.category)) =>
        /\ px.ret[1].status = "rejected"
        /\ px.command = Absent
        /\ px.spawned = 0

\* ------------------------------------------------- claims: artifact store
\* the database after the first k calls of the run
RECURSIVE Replay(_)
Replay(k) ==
    IF k = 0 THEN EmptyDb
    ELSE IF ops[k].op = "process"
         THEN ProcessPluginResults(Replay(k - 1), ops[k].results).db
         ELSE TagArtifacts(Replay(k - 1), ReviewTag, ops[k].type)

\* C14: the store never holds two records of the same type whose values are
\* equal up to case, whatever was processed and in whatever batches.
C14_OneRecordPerIdentity ==
    \A i, j \in DOMAIN artifacts :
        (/\ artifacts[i].type = artifacts[j].type
         /\ Lower(artifacts[i].value) = Lower(artifacts[j].value)) => i = j

\* the candidates of the k-th call
CandidatesOf(k) == IF ops[k].op = "process" THEN Range(Candidates(ops[k].results)) ELSE {}

\* "a@x" and "A@X" were both processed as emails, in one batch, and one
\* email record is stored
C14_Witness ==
    /\ \E k \in 1..Len(ops) :
          \E c, d \in CandidatesOf(k) :
              /\ c.type = "email" /\ c.value = <<"a", "@", "x">>
              /\ d.type = "email" /\ d.value = <<"A", "@", "X">>
    /\ Cardinality({id \in DOMAIN artifacts : artifacts[id].type = "email"}) = 1

\* the step is a process_plugin_results call
IsProcessStep == Len(ops') = Len(ops) + 1 /\ ops'[Len(ops')].op = "process"

\* C15: processing a results map right after the same results map leaves the
\* number of stored records as it was after the first time.
C15_DedupIdempotentSize ==
    [][(/\ IsProcessStep
        /\ ops # <<>>
        /\ ops'[Len(ops')] = ops[Len(ops)])
       => Cardinality(DOMAIN artifacts') = Cardinality(DOMAIN artifacts)]_vars

\* a results map that carries artifacts was processed twice in a row
C15_Witness ==
    /\ Len(ops) >= 2
    /\ ops[Len(ops)].op = "process"
    /\ ops[Len(ops)] = ops[Len(ops) - 1]
    /\ Cardinality(CandidatesOf(Len(ops))) = 2
    /\ Cardinality(DOMAIN artifacts) = 2

\* C16: when a candidate has the identity of a stored record, processing it
\* leaves the record with the larger of the two confidences and with the
\* union of the two tag sets.
C16_MergeMaxUnion ==
    [][IsProcessStep =>
        \A c \in Range(Candidates(ops'[Len(ops')].results)) :
            c.id \in DOMAIN artifacts =>
                /\ artifacts'[c.id].confidence =
                       IF artifacts[c.id].confidence > c.confidence
                       THEN artifacts[c.id].confidence ELSE c.confidence
                /\ artifacts'[c.id].tags = artifacts[c.id].tags \cup c.tags]_vars

\* identities, confidence and tag set of each record
StoreView(db) ==
    [id \in DOMAIN db.artifacts |->
        [confidence |-> db.artifacts[id].confidence, tags |-> db.artifacts[id].tags]]

\* C17: after processing a batch A and then a batch B the store holds the
\* identities, confidences and tag sets it would hold had B been processed
\* before A.
C17_MergeCommutative ==
    (/\ Len(ops) >= 2
     /\ ops[Len(ops)].op = "process"
     /\ ops[Len(ops) - 1].op = "process")
    => StoreView(Db) =
       StoreView(ProcessPluginResults(
                     ProcessPluginResults(Replay(Len(ops) - 2),
                                          ops[Len(ops)].results).db,
                     ops[Len(ops) - 1].results).db)

\* two different batches that share an identity, written in different case,
\* and each bring one of their own were processed one after the other
C17_Witness ==
    /\ Len(ops) >= 2
    /\ ops[Len(ops)].op = "process"
    /\ ops[Len(ops) - 1].op = "process"
    /\ LET A == CandidatesOf(Len(ops) - 1)
           B == CandidatesOf(Len(ops))
       IN  /\ \E a \in A, b \in B : a.id = b.id /\ a.value # b.value
           /\ \E a \in A : \A b \in B : a.id # b.id
           /\ \E b \in B : \A a \in A : a.id # b.id

\* C18: processing again a results map that was processed before, with
\* nothing but tagging in between, leaves the store as it was: every record
\* and both indices.
C18_ReingestUnchanged ==
    [][(/\ IsProcessStep
        /\ \E k \in 1..Len(ops) :
              /\ ops[k] = ops'[Len(ops')]
              /\ \A j \in (k + 1)..Len(ops) : ops[j].op = "tag")
       => <<artifacts', artifacts_by_type', artifacts_by_source'>>
          = <<artifacts, artifacts_by_type, artifacts_by_source>>]_vars

\* C28 as stated: processing a candidate whose identity is stored keeps the
\* stored record (its value and its source are not the candidate's), and the
\* list processing returns holds no candidate whose identity was stored.
C28_StoredRecordKept ==
    [][IsProcessStep =>
        LET returned == ProcessPluginResults(Db, ops'[Len(ops')].results).deduplicated
        IN  /\ \A id \in DOMAIN artifacts :
                  /\ artifacts'[id].value = artifacts[id].value
                  /\ artifacts'[id].source_plugin = artifacts[id].source_plugin
            /\ \A k \in 1..Len(returned) : returned[k].id \notin DOMAIN artifacts]_vars

\* C29: processing a results map creates or changes records only for the
\* values of entries whose status is completed and whose result is not
\* empty; a map without such an entry leaves the store as it was.
C29_OnlyCompletedProduce ==
    [][IsProcessStep =>
        LET results == ops'[Len(ops')].results
            productive == {i \in 1..Len(results) :
                              /\ results[i].status = COMPLETED
                              /\ results[i].result # NoResult}
        IN  /\ productive = {} =>
                  <<artifacts', artifacts_by_type', artifacts_by_source'>>
                  = <<artifacts, artifacts_by_type, artifacts_by_source>>
            /\ \A id \in DOMAIN artifacts' :
                  (id \notin DOMAIN artifacts \/ artifacts'[id] # artifacts[id]) =>
                      \E i \in productive :
                          \E key \in DOMAIN results[i].result[1] :
                              \E e \in Range(results[i].result[1][key]) :
                                  /\ id = GenerateArtifactId(Extraction[key].type, e)
                                  /\ artifacts'[id].source_plugin = results[i].plugin]_vars

\* a map whose only entry timed out and yet carries a payload was processed
\* by a store that held a record, after a map that created that record
C29_Witness ==
    /\ Len(ops) = 2
    /\ ops[1].op = "process"
    /\ ops[2].op = "process"
    /\ Len(ops[2].results) = 1
    /\ ops[2].results[1].status = TIMEOUT
    /\ ops[2].results[1].result # NoResult
    /\ Cardinality(DOMAIN artifacts) = 1
    /\ \A id \in DOMAIN artifacts : artifacts[id].value # <<"b", "@", "x">>

\* ------------------------------------------------- the queue and stop()
\* C33: tasks leave the shared queue in submission order: if task A was
\* submitted before task B, then B is not dequeued, and is not RUNNING or
\* beyond, while A is still in the queue.
C33_FifoOrder ==
    \A a, b \in TaskIdx :
        (a < b /\ (b \notin Range(task_queue) \/ task_objs[b].status # PENDING))
            => a \notin Range(task_queue)

\* C33 witness: of three tasks the first two were pulled by the two workers,
\* which are executing them, and the third waits in the queue
C33_Witness ==
    \E a, b, c \in TaskIdx :
        /\ a < b /\ b < c
        /\ wstate[1] = "execute" /\ wstate[2] = "execute"
        /\ {wtask[1], wtask[2]} = {a, b}
        /\ task_queue = <<c>>

\* C34: no two tasks submitted during one investigation run share an id:
\* every task created by the run's batches has its own entry in self.tasks.
C34_UniqueIds ==
    /\ \A t, u \in TaskIdx : t # u => task_objs[t].id # task_objs[u].id
    /\ \A t \in TaskIdx : tasks[task_objs[t].id] = t

\* C37: concurrency slots are never leaked: whenever no task is RUNNING, and
\* whenever stop() has returned, all max_workers slots of the semaphore are
\* free, also after stop() cancelled workers in mid-task.
C37_NoSlotLeak ==
    /\ NumRunning = 0 => semaphore = MaxWorkers
    /\ (~running /\ cpc = "idle") => semaphore = MaxWorkers

\* C37 witness: the pool was stopped while a task was executing and started
\* again, and now executes max_workers tasks at the same time
C37_Witness ==
    /\ running
    /\ semaphore = 0
    /\ Cardinality({w \in WorkerIds : wstate[w] = "execute"}) = MaxWorkers
    /\ \E t \in TaskIdx : task_objs[t].status = RUNNING /\ ~Executing(t)

\* C38: stop() does not touch tasks that were never started: from the call
\* of stop() to its return no task leaves the queue and no PENDING task
\* changes its status.
C38_StopKeepsPending ==
    [][(cpc = "stopping" \/ cpc' = "stopping") =>
          /\ task_queue' = task_queue
          /\ \A t \in TaskIdx :
                task_objs[t].status = PENDING => task_objs'[t].status = PENDING]_vars

\* ---------------------------------------------------- the store's indices
\* C36: the store's lookup indices agree with its records: an id is in
\* artifacts_by_type[t] exactly when its stored record has type t, and in
\* artifacts_by_source[p] exactly when its stored record has source plugin p.
C36_IndicesAgree ==
    /\ \A t \in DOMAIN artifacts_by_type : \A id \in artifacts_by_type[t] :
          id \in DOMAIN artifacts /\ artifacts[id].type = t
    /\ \A p \in DOMAIN artifacts_by_source : \A id \in artifacts_by_source[p] :
          id \in DOMAIN artifacts /\ artifacts[id].source_plugin = p
    /\ \A id \in DOMAIN artifacts :
          /\ artifacts[id].type \in DOMAIN artifacts_by_type
          /\ id \in artifacts_by_type[artifacts[id].type]
          /\ artifacts[id].source_plugin \in DOMAIN artifacts_by_source
          /\ id \in artifacts_by_source[artifacts[id].source_plugin]

\* ------------------------------------------------- candidates and budgets
\* C31: the chaining candidates for an artifact type are exactly the
\* discovered plugins whose consumes set contains the type, each once, in
\* ascending order of chain_priority; with aggressiveness low at most one
\* candidate is kept and it has the least chain_priority of all candidates,
\* so every secondary task of such a run is one of that plugin.
C31_CandidatesByPriority ==
    /\ \A t \in ChainableTypes :
          LET c == GetChainingCandidates(t)
          IN  /\ Range(c) = CandidatesFor(t)
              /\ Len(c) = Cardinality(CandidatesFor(t))
              /\ \A i, j \in 1..Len(c) :
                    i < j => ChainPriority[c[i]] <= ChainPriority[c[j]]
              /\ profile.aggressiveness = "low" =>
                    /\ Len(LimitCandidates(c)) <= 1
                    /\ \A i \in 1..Len(LimitCandidates(c)) : \A name \in CandidatesFor(t) :
                          ChainPriority[LimitCandidates(c)[i]] <= ChainPriority[name]
    /\ (inv.chained /\ profile.aggressiveness = "low") =>
          \A i \in 1..Len(investigation_state.chained_tasks) :
              LET r == investigation_state.chained_tasks[i]
              IN  \A name \in CandidatesFor(r.source_artifact_type) :
                      ChainPriority[r.plugin] <= ChainPriority[name]

\* C31 witness: a run with aggressiveness low chained the domains, which
\* all three plugins consume, and its secondary tasks are those of nmap
C31_Witness ==
    /\ inv.chained
    /\ profile.aggressiveness = "low"
    /\ GetChainingCandidates("domains") = <<"nmap", "theharvester", "demo">>
    /\ ChainedOfType("domains") > 0
    /\ \A i \in 1..Len(investigation_state.chained_tasks) :
          investigation_state.chained_tasks[i].plugin = "nmap"

\* C32: each secondary task is waited on with a budget that is half of the
\* primary batch timeout T (integer division), and therefore strictly
\* smaller than T, for every configured T >= 1.
C32_HalvedBudget ==
    (inv.chained /\ inv.chained_wait # Absent) =>
        /\ inv.chained_wait[1] = profile.timeout \div 2
        /\ inv.chained_wait[1] < profile.timeout

StatusGuards ==
    /\ sm'.op = "pause" => (sm'.ret = "True" <=> sm.status = "running")
    /\ sm'.op \in {"complete", "kill"}
           => (sm'.ret = "True" <=> sm.status \in {"running", "paused"})
    /\ sm'.op = "resume"
           => (sm'.ret = "True"
                   <=> LoadState(sm, sm'.arg) \in {"paused", "failed", "killed"})
    /\ (sm'.op \in {"pause", "complete", "kill", "resume"} /\ sm'.ret = "False")
           => sm'.status = sm.status /\ sm'.state_id = sm.state_id

\* the current investigation is completed and, after a step that is not
\* start_investigation, still the current one: it is still completed
CompletedIsFinal ==
    (sm.status = "completed" /\ sm'.state_id = sm.state_id /\ sm'.op # "start")
        => sm'.status = "completed"

\* C39: StateManager guards the status transitions: pause succeeds only
\* from running, complete and kill only from running or paused, resume only
\* for a saved state that is paused, failed or killed; called in any other
\* status each returns False and leaves the current status unchanged, so a
\* completed investigation changes status only by start_investigation.
C39_GuardedTransitions ==
    [][sm'.calls = sm.calls + 1 => StatusGuards /\ CompletedIsFinal]_vars

====
